---- MODULE Spec2Model ----
(***************************************************************************)
(* Salon appointment / customer / service management application.          *)
(*                                                                         *)
(* The module models                                                       *)
(*   - the appointments collection and its route handlers                  *)
(*     (app/api/appointments/route.ts, app/api/appointments/[id]/route.ts) *)
(*   - the appointment edit page (app/appointments/[id]/edit/page.tsx)     *)
(*   - the booking form with its adjustment dialogs                        *)
(*     (components/AppointmentForm.tsx, BulkAdjustmentModal.tsx,           *)
(*      CustomerSuggestionsModal.tsx)                                      *)
(*   - the history analysis (app/api/customers/[id]/history/route.ts and   *)
(*     CustomerSuggestionsModal.analyzeAdjustmentHistory)                  *)
(*   - the customers and services collections and their route handlers     *)
(*   - the route handlers as requests that read and write the data files,  *)
(*     files that are missing or unparsable, and two clients at once       *)
(*   - the preview of the bulk adjustment dialog, the appointment detail   *)
(*     page, the services page's list and the calendar with its settings   *)
(*     panel (components/CalendarView.tsx, CalendarSettingsPanel.tsx)      *)
(*                                                                         *)
(* Conventions                                                             *)
(*   - instants (start, end) are minutes on one time line, so that         *)
(*     "end = start + n minutes" is integer addition;                      *)
(*   - ids are the numbers whose decimal strings the code stores;          *)
(*   - createdAt / updatedAt / phone are not modelled (no clock);          *)
(*   - a JSON body is a function from field names to values, an absent     *)
(*     field is absent from its DOMAIN.                                    *)
(***************************************************************************)
EXTENDS Integers, Sequences, FiniteSets, TLC

VARIABLES
    appointments,        \* data/appointments.json : sequence of Appointment
    editPage,            \* EditAppointmentPage state (appointment, formData, totals)
    formData,            \* AppointmentForm.formData
    adjustableServices,  \* AppointmentForm.adjustableServices
    totalPrice,          \* AppointmentForm.totalPrice
    totalDuration,       \* AppointmentForm.totalDuration
    hasSuggestions,      \* AppointmentForm.hasSuggestions
    lastOp,              \* the last booking-form operation and its inputs
    analysis,            \* the last answer of the history analysis
    customers,           \* data/customers.json : sequence of Customer
    servicesData,        \* data/services.json as readServices returns it
    response,            \* the last answer of the customers and services routes
    files,               \* the condition of each data/*.json file
    inFlight,            \* the requests the route handlers are working on
    bulkModal,           \* BulkAdjustmentModal: its props, state and preview
    detailPage,          \* AppointmentDetailPage: appointment, showConfirmDialog
    calendarView,        \* CalendarView: appointments, settings, the last click
    settingsPanel        \* CalendarSettingsPanel: settings, and what it shares

vars == <<appointments, editPage, formData, adjustableServices, totalPrice,
          totalDuration, hasSuggestions, lastOp, analysis, customers,
          servicesData, response, files, inFlight,
          bulkModal, detailPage, calendarView, settingsPanel>>

officeVars == <<customers, servicesData, response>>

\* the state of the parts that are specified further down
otherVars == <<files, inFlight, bulkModal, detailPage, calendarView,
               settingsPanel>>

formVars == <<formData, adjustableServices, totalPrice, totalDuration,
              hasSuggestions, lastOp>>

(***************************************************************************)
(* Bounds                                                                  *)
(***************************************************************************)
MaxAppointments == 1

\* appointments in a stored history that is analysed for its filtering
MaxHistory == 2

\* completed visits in a stored history that is analysed for its statistics
MaxVisits == 4

(***************************************************************************)
(* Generic helpers                                                         *)
(***************************************************************************)
Max(a, b) == IF a >= b THEN a ELSE b

Min(a, b) == IF a <= b THEN a ELSE b

Range(s) == {s[i] : i \in 1..Len(s)}

\* Math.round(num / den) for den > 0: the nearest integer, halves towards
\* +infinity.  \div is the floor division.
MathRound(num, den) == (2 * num + den) \div (2 * den)

\* Array.prototype.reduce((sum, x) => sum + x.price, 0)
RECURSIVE SumPrice(_)
SumPrice(s) == IF s = <<>> THEN 0 ELSE s[1].price + SumPrice(Tail(s))

\* Array.prototype.reduce((sum, x) => sum + x.duration, 0)
RECURSIVE SumDuration(_)
SumDuration(s) == IF s = <<>> THEN 0 ELSE s[1].duration + SumDuration(Tail(s))

\* services.map(s => s.name).join(' & '), kept as the list of joined names
JoinNames(services) == [i \in 1..Len(services) |-> services[i].name]

\* the position of element i after a stable descending sort on the keys k
RankDesc(k, i) ==
    1 + Cardinality({j \in 1..Len(k) : k[j] > k[i] \/ (k[j] = k[i] /\ j < i)})

\* Array.prototype.sort((a, b) => key(b) - key(a)) : stable, keys k[i] of s[i]
StableSortDesc(s, k) ==
    [r \in 1..Len(s) |-> s[CHOOSE i \in 1..Len(s) : RankDesc(k, i) = r]]

(***************************************************************************)
(* Catalog used by the pages (first entries of the hard-coded lists)       *)
(***************************************************************************)
DUMMY_SERVICES ==
    << [id |-> 1, name |-> "cut",   duration |-> 40, price |-> 4500],
       [id |-> 2, name |-> "color", duration |-> 90, price |-> 8000] >>

AVAILABLE_SERVICES == DUMMY_SERVICES

Statuses == {"scheduled", "completed", "cancelled"}

Terminal == {"completed", "cancelled"}

(***************************************************************************)
(* app/api/appointments : storage and handlers                             *)
(***************************************************************************)
\* data.appointments.findIndex(appt => appt.id === params.id), 0 for -1
FindIndex(store, id) ==
    IF \E i \in 1..Len(store) : store[i].id = id
    THEN CHOOSE i \in 1..Len(store) :
            store[i].id = id /\ \A j \in 1..(i - 1) : store[j].id # id
    ELSE 0

\* data.appointments.reduce((max, a) => Math.max(max, parseInt(a.id) || 0), 0)
RECURSIVE MaxId(_)
MaxId(store) == IF store = <<>> THEN 0 ELSE Max(store[1].id, MaxId(Tail(store)))

\* x || d for a numeric field that may be absent (0 is falsy)
OrNum(body, f, d) == IF f \in DOMAIN body /\ body[f] # 0 THEN body[f] ELSE d

\* x || d for a string field that may be absent ('' is falsy)
OrStr(body, f, d) == IF f \in DOMAIN body /\ body[f] # "" THEN body[f] ELSE d

\* x || d for an array field that may be absent (every array is truthy)
OrSeq(body, f, d) == IF f \in DOMAIN body THEN body[f] ELSE d

\* the validation of POST: clientName, start and a non-empty services list
\* (start is an ISO string in the code and therefore truthy whenever present)
PostValid(body) ==
    /\ "clientName" \in DOMAIN body /\ body.clientName # ""
    /\ "start" \in DOMAIN body
    /\ "services" \in DOMAIN body /\ Len(body.services) > 0

\* the Appointment record POST builds from the request body
NewAppointment(store, body) ==
    LET newId == MaxId(store) + 1 IN
    [ id            |-> newId,
      title         |-> OrSeq(body, "title", JoinNames(body.services)),
      start         |-> body.start,
      end           |-> body.end,
      clientId      |-> OrNum(body, "clientId", newId),
      clientName    |-> body.clientName,
      services      |-> body.services,
      totalPrice    |-> OrNum(body, "totalPrice", 0),
      totalDuration |-> OrNum(body, "totalDuration", 0),
      note          |-> OrStr(body, "note", ""),
      status        |-> "scheduled" ]

\* POST /api/appointments (400 leaves the collection alone)
POST(body) ==
    /\ IF PostValid(body)
       THEN appointments' = Append(appointments, NewAppointment(appointments, body))
       ELSE appointments' = appointments

\* as MergeAppointment, without the id: params.id that follows the spreads
MergeAppointment_BodyId(existing, updatedData, id) ==
    [f \in DOMAIN existing \cup DOMAIN updatedData |->
        IF f \in DOMAIN updatedData THEN updatedData[f] ELSE existing[f]]

\* { ...existingAppointment, ...updatedData, id: params.id }
MergeAppointment(existing, updatedData, id) ==
    [f \in DOMAIN existing \cup DOMAIN updatedData |->
        IF f = "id" THEN id
        ELSE IF f \in DOMAIN updatedData THEN updatedData[f]
        ELSE existing[f]]

\* the collection PUT /api/appointments/[id] writes (unchanged on 404)
PutResult(store, id, updatedData) ==
    LET i == FindIndex(store, id) IN
    IF i = 0 THEN store
    ELSE [store EXCEPT ![i] = MergeAppointment(store[i], updatedData, id)]

\* PUT /api/appointments/[id]
PUT(id, updatedData) ==
    appointments' = PutResult(appointments, id, updatedData)

\* DELETE /api/appointments/[id] : splice(appointmentIndex, 1)
DELETE(id) ==
    LET i == FindIndex(appointments, id) IN
    /\ i # 0
    /\ appointments' = SubSeq(appointments, 1, i - 1)
                        \o SubSeq(appointments, i + 1, Len(appointments))

(***************************************************************************)
(* app/appointments/[id]/edit/page.tsx : EditAppointmentPage               *)
(***************************************************************************)
\* useState<Appointment | null>(null)
NoAppointment == [id |-> 0]

\* the state of a freshly mounted page (also the state after an error)
EditPageInit ==
    [ appointment   |-> NoAppointment,
      formData      |-> [date |-> 0, time |-> 0, selectedServiceIds |-> <<>>, note |-> ""],
      totalPrice    |-> 0,
      totalDuration |-> 0 ]

\* AVAILABLE_SERVICES.filter(service => selectedServiceIds.includes(service.id))
EditSelectedServices(selectedServiceIds) ==
    SelectSeq(AVAILABLE_SERVICES, LAMBDA service : service.id \in Range(selectedServiceIds))

\* the effect on [formData.selectedServiceIds]: totals of the catalog entries
EditWithTotals(page) ==
    [page EXCEPT
        !.totalPrice    = SumPrice(EditSelectedServices(page.formData.selectedServiceIds)),
        !.totalDuration = SumDuration(EditSelectedServices(page.formData.selectedServiceIds))]

\* minutes in a day; date is a day number, time the minute of the day
MinutesPerDay == 1440

\* format(parseISO(start), 'yyyy-MM-dd') / 'HH:mm' and back
DateOf(instant) == instant \div MinutesPerDay

TimeOf(instant) == instant % MinutesPerDay

InstantOf(date, time) == date * MinutesPerDay + time

\* fetchAppointment: GET, refuse what is not 'scheduled', initialise the form
EditFetchAppointment(id) ==
    LET i == FindIndex(appointments, id) IN
    /\ editPage' =
         IF i = 0 \/ appointments[i].status # "scheduled"
         THEN EditPageInit
         ELSE EditWithTotals(
                [ appointment   |-> appointments[i],
                  formData      |-> [ date |-> DateOf(appointments[i].start),
                                      time |-> TimeOf(appointments[i].start),
                                      selectedServiceIds |->
                                          [k \in 1..Len(appointments[i].services) |->
                                              appointments[i].services[k].id],
                                      note |-> appointments[i].note ],
                  totalPrice    |-> 0,
                  totalDuration |-> 0 ])
    /\ UNCHANGED appointments

\* handleServiceChange: toggle one catalog entry, then the totals effect
EditHandleServiceChange(serviceId) ==
    LET ids == editPage.formData.selectedServiceIds
        newIds == IF serviceId \in Range(ids)
                  THEN SelectSeq(ids, LAMBDA x : x # serviceId)
                  ELSE Append(ids, serviceId)
    IN
    /\ editPage.appointment # NoAppointment
    /\ editPage' = EditWithTotals([editPage EXCEPT !.formData.selectedServiceIds = newIds])
    /\ UNCHANGED appointments

\* handleChange: setFormData({...formData, [name]: value})
EditHandleChange(name, value) ==
    /\ editPage.appointment # NoAppointment
    /\ editPage' = [editPage EXCEPT !.formData[name] = value]
    /\ UNCHANGED appointments

\* the body handleSubmit sends: the loaded record overlaid with the form
EditSubmitBody(page) ==
    LET selected == EditSelectedServices(page.formData.selectedServiceIds)
        start == InstantOf(page.formData.date, page.formData.time)
    IN
    MergeAppointment(page.appointment,
        [ title         |-> JoinNames(selected),
          start         |-> start,
          end           |-> start + page.totalDuration,
          services      |-> selected,
          totalPrice    |-> page.totalPrice,
          totalDuration |-> page.totalDuration,
          note          |-> page.formData.note ],
        page.appointment.id)

\* handleSubmit: PUT the body; on success the router leaves the page
EditHandleSubmit ==
    /\ editPage.appointment # NoAppointment
    /\ Len(editPage.formData.selectedServiceIds) > 0
    /\ PUT(editPage.appointment.id, EditSubmitBody(editPage))
    /\ editPage' = IF FindIndex(appointments, editPage.appointment.id) = 0
                   THEN editPage
                   ELSE EditPageInit

(***************************************************************************)
(* Requests a client can send to the appointments API                      *)
(***************************************************************************)
Cut == DUMMY_SERVICES[1]

Color == DUMMY_SERVICES[2]

\* a booking as AppointmentForm sends it, one as adjusted in the form, one
\* sent by a client that leaves the totals out, and one without services
PostBodies ==
    { [clientName |-> "tanaka", clientId |-> 1, start |-> 600, end |-> 640,
       services |-> <<Cut>>, totalPrice |-> 4500, totalDuration |-> 40, note |-> ""],
      [clientName |-> "tanaka", clientId |-> 1, start |-> 600, end |-> 650,
       services |-> <<[Cut EXCEPT !.duration = 50, !.price = 4000]>>,
       totalPrice |-> 4000, totalDuration |-> 50, note |-> ""],
      [clientName |-> "tanaka", clientId |-> 1, start |-> 600, end |-> 640,
       services |-> <<Cut>>, note |-> ""],
      [clientName |-> "tanaka", clientId |-> 1, start |-> 600, end |-> 600,
       services |-> <<>>, note |-> ""] }

\* patches of PUT: a status alone, a services list alone
PutPatches ==
    {[status |-> s] : s \in Statuses} \cup {[services |-> <<Color>>]}

\* values typed into the edit form
EditChanges == {[name |-> "time", value |-> 630], [name |-> "note", value |-> "memo"]}

AppointmentIds == 1..MaxAppointments

ServiceIds == {DUMMY_SERVICES[i].id : i \in 1..Len(DUMMY_SERVICES)}

(***************************************************************************)
(* Specification of the appointments collection and the edit page          *)
(***************************************************************************)
NoAnalysis == [kind |-> "none"]

\* no request was answered yet
NoResponse == [op |-> "none", status |-> 0]

\* what readServices returns while data/services.json does not exist (the
\* first two of its six entries)
DefaultServices ==
    << [id |-> 1, name |-> "cut", duration |-> 40, price |-> 4500,
        category |-> "basic", isActive |-> TRUE, updatedAt |-> 0],
       [id |-> 2, name |-> "color", duration |-> 90, price |-> 8000,
        category |-> "color", isActive |-> TRUE, updatedAt |-> 0] >>

\* the customers and services routes were not called yet
OfficeIdle ==
    /\ customers = <<>>
    /\ servicesData = DefaultServices
    /\ response = NoResponse

\* stored files are in order and no request is being worked on
Collections == {"appointments", "customers", "services"}

NoRequest == [pc |-> "idle"]

Clients == {1, 2}

\* the bulk adjustment dialog is not mounted
NoModal == [open |-> FALSE]

\* the detail page before its fetch answers: useState(null), type: null
DetailPageInit == [appointment |-> [id |-> 0], showConfirmDialog |-> "null"]

\* CalendarView: useState of settings
DefaultSettings ==
    [ timeRange        |-> [startHour |-> 8, endHour |-> 20],
      dayRange         |-> [startDay |-> 0, endDay |-> 6],
      timeSlotInterval |-> 30,
      showWeekends     |-> TRUE ]

\* no slot of the calendar was clicked
NoClick == [date |-> 0 - 1, slotTime |-> 0 - 1]

\* the calendar before its fetch answers, nothing saved in localStorage
\* (the item 'calendarSettings' is a sequence of at most one value) and no
\* slot clicked yet
CalendarViewInit ==
    [ appointments |-> <<>>,
      settings     |-> DefaultSettings,
      localStorage |-> <<>>,
      clicked      |-> NoClick,
      route        |-> "/calendar" ]

\* the settings panel is not mounted
NoPanel == [open |-> FALSE]

PagesIdle ==
    /\ bulkModal = NoModal
    /\ detailPage = DetailPageInit
    /\ calendarView = CalendarViewInit
    /\ settingsPanel = NoPanel

OtherIdle ==
    /\ files = [c \in Collections |-> "present"]
    /\ inFlight = [r \in Clients |-> NoRequest]
    /\ PagesIdle

IdleForm ==
    /\ formData = [customerId |-> 0, customerName |-> "", date |-> 0, time |-> 600,
                   selectedServices |-> <<>>, note |-> "", step |-> 1]
    /\ adjustableServices = <<>>
    /\ totalPrice = 0
    /\ totalDuration = 0
    /\ hasSuggestions = FALSE
    /\ lastOp = [op |-> "none"]

ApptInit ==
    /\ appointments = <<>>
    /\ editPage = EditPageInit
    /\ IdleForm
    /\ OtherIdle
    /\ analysis = NoAnalysis
    /\ OfficeIdle

ApiPost ==
    /\ Len(appointments) < MaxAppointments
    /\ \E body \in PostBodies : POST(body)
    /\ UNCHANGED <<otherVars, editPage, formVars, analysis, officeVars>>

ApiPut ==
    /\ \E id \in AppointmentIds, patch \in PutPatches : PUT(id, patch)
    /\ UNCHANGED <<otherVars, editPage, formVars, analysis, officeVars>>

ApiDelete ==
    /\ \E id \in AppointmentIds : DELETE(id)
    /\ UNCHANGED <<otherVars, editPage, formVars, analysis, officeVars>>

EditLoad ==
    /\ \E id \in AppointmentIds : EditFetchAppointment(id)
    /\ UNCHANGED <<otherVars, formVars, analysis, officeVars>>

EditToggle ==
    /\ \E serviceId \in ServiceIds : EditHandleServiceChange(serviceId)
    /\ UNCHANGED <<otherVars, formVars, analysis, officeVars>>

EditChange ==
    /\ \E c \in EditChanges : EditHandleChange(c.name, c.value)
    /\ UNCHANGED <<otherVars, formVars, analysis, officeVars>>

EditSubmit ==
    /\ EditHandleSubmit
    /\ UNCHANGED <<otherVars, formVars, analysis, officeVars>>

ApptNext ==
    \/ ApiPost
    \/ ApiPut
    \/ ApiDelete
    \/ EditLoad
    \/ EditToggle
    \/ EditChange
    \/ EditSubmit

SpecAppt == ApptInit /\ [][ApptNext]_vars

(***************************************************************************)
(* Claims about the appointment lifecycle and the stored totals            *)
(***************************************************************************)
\* the stored record with the given id in the next state, if it is still there
SameRecord(i, j) == appointments[i].id = appointments'[j].id

\* C1: a created appointment starts 'scheduled', and once the stored status
\* of an appointment is 'completed' or 'cancelled' no request changes it: an
\* update carrying another status leaves the stored record as it was.
C1_TerminalStatusIsFinal ==
    [][ /\ \A j \in 1..Len(appointments') :
              (\A i \in 1..Len(appointments) : ~SameRecord(i, j))
                  => appointments'[j].status = "scheduled"
        /\ \A i \in 1..Len(appointments), j \in 1..Len(appointments') :
              (SameRecord(i, j) /\ appointments[i].status \in Terminal)
                  => appointments'[j] = appointments[i] ]_vars

\* C2: an update that changes start/end, services, totals or note of an
\* appointment whose stored status is not 'scheduled' is refused: these
\* fields of the stored record stay as they were.
C2_NoEditAfterScheduled ==
    [][ \A i \in 1..Len(appointments), j \in 1..Len(appointments') :
            (SameRecord(i, j) /\ appointments[i].status # "scheduled")
                => /\ appointments'[j].start = appointments[i].start
                   /\ appointments'[j].end = appointments[i].end
                   /\ appointments'[j].services = appointments[i].services
                   /\ appointments'[j].totalPrice = appointments[i].totalPrice
                   /\ appointments'[j].totalDuration = appointments[i].totalDuration
                   /\ appointments'[j].note = appointments[i].note ]_vars

\* the three derived-field equations of one stored appointment
TotalsConsistent(a) ==
    /\ a.totalPrice = SumPrice(a.services)
    /\ a.totalDuration = SumDuration(a.services)
    /\ a.end = a.start + a.totalDuration

\* C3: every stored appointment has totalPrice = sum of the services'
\* prices, totalDuration = sum of their durations and end = start +
\* totalDuration minutes, and the totals the booking form shows are the sums
\* of the adjusted values of the selected services.
C3_TotalsConsistent ==
    /\ \A i \in 1..Len(appointments) : TotalsConsistent(appointments[i])
    /\ totalPrice = (LET RECURSIVE S(_)
                         S(k) == IF k = 0 THEN 0
                                 ELSE adjustableServices[k].adjustedPrice + S(k - 1)
                     IN S(Len(adjustableServices)))
    /\ totalDuration = (LET RECURSIVE D(_)
                            D(k) == IF k = 0 THEN 0
                                    ELSE adjustableServices[k].adjustedDuration + D(k - 1)
                        IN D(Len(adjustableServices)))

(***************************************************************************)
(* app/api/customers/[id]/history : GET                                    *)
(***************************************************************************)
\* the keys of a stable descending sort of appointments by start
StartsOf(appts) == [i \in 1..Len(appts) |-> appts[i].start]

\* GET /api/customers/[id]/history?completedOnly=...
GetHistory(store, customerId, completedOnly) ==
    LET customerAppointments ==
            SelectSeq(store, LAMBDA appointment : appointment.clientId = customerId)
        sorted == StableSortDesc(customerAppointments, StartsOf(customerAppointments))
    IN IF completedOnly
       THEN SelectSeq(sorted, LAMBDA apt : apt.status = "completed")
       ELSE sorted

(***************************************************************************)
(* components/CustomerSuggestionsModal.tsx                                 *)
(***************************************************************************)
\* appointment.services.forEach(... push({duration, price, date})) for one id
RECURSIVE UsesInServices(_, _, _)
UsesInServices(services, serviceId, date) ==
    IF services = <<>> THEN <<>>
    ELSE (IF services[1].id = serviceId
          THEN <<[duration |-> services[1].duration, price |-> services[1].price,
                  date |-> date]>>
          ELSE <<>>) \o UsesInServices(Tail(services), serviceId, date)

\* serviceAdjustments[serviceId] : the uses of one service, in history order
RECURSIVE ServiceAdjustments(_, _)
ServiceAdjustments(appts, serviceId) ==
    IF appts = <<>> THEN <<>>
    ELSE UsesInServices(appts[1].services, serviceId, appts[1].start)
            \o ServiceAdjustments(Tail(appts), serviceId)

\* the record analyzeAdjustmentHistory returns for one selected service
HistoricalAdjustment(selectedService, history) ==
    LET latest == StableSortDesc(history, [i \in 1..Len(history) |-> history[i].date])[1]
    IN [ serviceId       |-> selectedService.id,
         serviceName     |-> selectedService.name,
         averageDuration |-> MathRound(SumDuration(history), Len(history)),
         averagePrice    |-> MathRound(SumPrice(history), Len(history)),
         lastDuration    |-> latest.duration,
         lastPrice       |-> latest.price,
         frequency       |-> Len(history),
         baseDuration    |-> selectedService.baseDuration,
         basePrice       |-> selectedService.basePrice ]

\* analyzeAdjustmentHistory(appointments) for the selectedServices prop
RECURSIVE AnalyzeSelected(_, _)
AnalyzeSelected(selected, completedAppointments) ==
    IF selected = <<>> THEN <<>>
    ELSE LET history == ServiceAdjustments(completedAppointments, selected[1].id) IN
         (IF Len(history) = 0 THEN <<>>
          ELSE <<HistoricalAdjustment(selected[1], history)>>)
            \o AnalyzeSelected(Tail(selected), completedAppointments)

analyzeAdjustmentHistory(appts, selectedServices) ==
    AnalyzeSelected(selectedServices,
                    SelectSeq(appts, LAMBDA apt : apt.status = "completed"))

\* suggestions.find(s => s.serviceId === service.id), <<>> when there is none
FindSuggestion(suggestions, serviceId) ==
    SelectSeq(suggestions, LAMBDA sg : sg.serviceId = serviceId)

\* the reason strings applySuggestions synthesizes
ReasonLast == "same as last time"

ReasonAverage(frequency) == "historical average, uses: " \o ToString(frequency)

\* applySuggestions(useAverage) : one service of selectedServices.map
SuggestedService(service, suggestions, selectedSuggestions, useAverage) ==
    LET found == FindSuggestion(suggestions, service.id) IN
    IF found # <<>> /\ service.id \in selectedSuggestions
    THEN [service EXCEPT
            !.adjustedDuration = IF useAverage THEN found[1].averageDuration
                                 ELSE found[1].lastDuration,
            !.adjustedPrice    = IF useAverage THEN found[1].averagePrice
                                 ELSE found[1].lastPrice,
            !.isAdjusted       = TRUE,
            !.adjustmentReason = IF useAverage THEN ReasonAverage(found[1].frequency)
                                 ELSE ReasonLast]
    ELSE service

applySuggestions(selectedServices, suggestions, selectedSuggestions, useAverage) ==
    [i \in 1..Len(selectedServices) |->
        SuggestedService(selectedServices[i], suggestions, selectedSuggestions, useAverage)]

(***************************************************************************)
(* components/BulkAdjustmentModal.tsx                                      *)
(***************************************************************************)
\* as BulkNewPrice, starting from the adjusted price instead of the base price
BulkNewPrice_FromAdjusted(service, adjustmentType, priceAdjustment) ==
    IF adjustmentType = "percentage"
    THEN MathRound(service.adjustedPrice * (100 + priceAdjustment), 100)
    ELSE IF adjustmentType = "fixed"
    THEN Max(0, service.adjustedPrice + priceAdjustment)
    ELSE service.basePrice

\* handleApply : the new price of one service
BulkNewPrice(service, adjustmentType, priceAdjustment) ==
    IF adjustmentType = "percentage"
    THEN MathRound(service.basePrice * (100 + priceAdjustment), 100)
    ELSE IF adjustmentType = "fixed"
    THEN Max(0, service.basePrice + priceAdjustment)
    ELSE service.basePrice

\* handleApply : the new duration of one service
BulkNewDuration(service, timeAdjustment) ==
    IF timeAdjustment # 0
    THEN Max(5, service.baseDuration + timeAdjustment)
    ELSE service.baseDuration

\* handleApply : selectedServices.map(...)
BulkHandleApply(selectedServices, adjustmentType, priceAdjustment, timeAdjustment, reason) ==
    [i \in 1..Len(selectedServices) |->
        LET service == selectedServices[i]
            newPrice == BulkNewPrice(service, adjustmentType, priceAdjustment)
            newDuration == BulkNewDuration(service, timeAdjustment)
        IN [service EXCEPT
              !.adjustedPrice    = newPrice,
              !.adjustedDuration = newDuration,
              !.isAdjusted       = (newPrice # service.basePrice
                                    \/ newDuration # service.baseDuration),
              !.adjustmentReason = reason]]

(***************************************************************************)
(* components/AppointmentForm.tsx                                          *)
(***************************************************************************)
DUMMY_CUSTOMERS ==
    << [id |-> 1, name |-> "tanaka"],
       [id |-> 2, name |-> "sato"] >>

\* adjustmentReason: undefined
Undefined == "undefined"

\* DUMMY_SERVICES.find(s => s.id === serviceId), <<>> when there is none
FindBaseService(serviceId) ==
    SelectSeq(DUMMY_SERVICES, LAMBDA sv : sv.id = serviceId)

\* fetchCustomerHistory : does the completed history hold a non-base value
HasAdjustmentHistory(history) ==
    \E a \in 1..Len(history) : \E k \in 1..Len(history[a].services) :
        LET service == history[a].services[k]
            base == FindBaseService(service.id)
        IN base # <<>> /\ (service.duration # base[1].duration
                           \/ service.price # base[1].price)

\* handleCustomerSelect, followed by the effect on [formData.customerId]
handleCustomerSelect(customer) ==
    /\ formData.step = 1
    /\ formData' = [formData EXCEPT !.customerId = customer.id,
                                    !.customerName = customer.name,
                                    !.step = 2]
    /\ hasSuggestions' = HasAdjustmentHistory(GetHistory(appointments, customer.id, TRUE))
    /\ lastOp' = [op |-> "customer"]
    /\ UNCHANGED <<otherVars, adjustableServices, totalPrice, totalDuration, appointments>>

\* the "next" button of step 2
GoToServices ==
    /\ formData.step = 2
    /\ formData' = [formData EXCEPT !.step = 3]
    /\ lastOp' = [op |-> "next"]
    /\ UNCHANGED <<otherVars, adjustableServices, totalPrice, totalDuration, hasSuggestions,
                   appointments>>

\* handleChange : date and time are inputs of step 2, note of step 3
handleChange(name, value) ==
    /\ formData.step = (IF name = "note" THEN 3 ELSE 2)
    /\ formData' = [formData EXCEPT ![name] = value]
    /\ lastOp' = [op |-> "change"]
    /\ UNCHANGED <<otherVars, adjustableServices, totalPrice, totalDuration, hasSuggestions,
                   appointments>>

\* the AdjustableService pushed when a catalog entry is selected
NewAdjustable(baseService) ==
    [ id               |-> baseService.id,
      name             |-> baseService.name,
      baseDuration     |-> baseService.duration,
      adjustedDuration |-> baseService.duration,
      basePrice        |-> baseService.price,
      adjustedPrice    |-> baseService.price,
      isAdjusted       |-> FALSE,
      adjustmentReason |-> Undefined ]

\* services.reduce((sum, service) => sum + service.adjustedPrice, 0)
RECURSIVE SumAdjustedPrice(_)
SumAdjustedPrice(s) ==
    IF s = <<>> THEN 0 ELSE s[1].adjustedPrice + SumAdjustedPrice(Tail(s))

\* services.reduce((sum, service) => sum + service.adjustedDuration, 0)
RECURSIVE SumAdjustedDuration(_)
SumAdjustedDuration(s) ==
    IF s = <<>> THEN 0 ELSE s[1].adjustedDuration + SumAdjustedDuration(Tail(s))

\* calculateTotals(services)
calculateTotals(services) ==
    /\ totalPrice' = SumAdjustedPrice(services)
    /\ totalDuration' = SumAdjustedDuration(services)

\* setAdjustableServices(services); calculateTotals(services)
SetServices(services) ==
    /\ adjustableServices' = services
    /\ calculateTotals(services)

\* handleServiceChange : select or deselect one catalog entry
handleServiceChange(serviceId) ==
    LET isSelected == serviceId \in Range(formData.selectedServices)
        base == FindBaseService(serviceId)
        newSelectedServices ==
            IF isSelected
            THEN SelectSeq(formData.selectedServices, LAMBDA x : x # serviceId)
            ELSE Append(formData.selectedServices, serviceId)
        newAdjustableServices ==
            IF isSelected
            THEN SelectSeq(adjustableServices, LAMBDA sv : sv.id # serviceId)
            ELSE IF base # <<>>
            THEN Append(adjustableServices, NewAdjustable(base[1]))
            ELSE adjustableServices
    IN
    /\ formData.step = 3
    /\ formData' = [formData EXCEPT !.selectedServices = newSelectedServices]
    /\ SetServices(newAdjustableServices)
    /\ lastOp' = [op |-> "toggle"]
    /\ UNCHANGED <<otherVars, hasSuggestions, appointments>>

\* handleServiceAdjustment : one service of adjustableServices.map
AdjustedService(service, newDuration, newPrice, reason) ==
    [service EXCEPT
        !.adjustedDuration = newDuration,
        !.adjustedPrice    = newPrice,
        !.isAdjusted       = (newDuration # service.baseDuration
                              \/ newPrice # service.basePrice),
        !.adjustmentReason = reason]

\* handleServiceAdjustment(serviceId, newDuration, newPrice, reason), called by
\* the save button of the form's own adjustment dialog with the dialog's state
handleServiceAdjustment(serviceId, newDuration, newPrice, reason) ==
    /\ formData.step = 3
    /\ serviceId \in Range(formData.selectedServices)
    /\ SetServices([i \in 1..Len(adjustableServices) |->
            IF adjustableServices[i].id = serviceId
            THEN AdjustedService(adjustableServices[i], newDuration, newPrice, reason)
            ELSE adjustableServices[i]])
    /\ lastOp' = [op |-> "adjust", serviceId |-> serviceId,
                  duration |-> newDuration, price |-> newPrice]
    /\ UNCHANGED <<otherVars, formData, hasSuggestions, appointments>>

\* as ResetService, without clearing the reason
ResetService_KeepsReason(service) ==
    [service EXCEPT
        !.adjustedDuration = service.baseDuration,
        !.adjustedPrice    = service.basePrice,
        !.isAdjusted       = FALSE]

\* handleResetService : one service of adjustableServices.map
ResetService(service) ==
    [service EXCEPT
        !.adjustedDuration = service.baseDuration,
        !.adjustedPrice    = service.basePrice,
        !.isAdjusted       = FALSE,
        !.adjustmentReason = Undefined]

\* handleResetService(serviceId), from the list or from the dialog
handleResetService(serviceId) ==
    /\ formData.step = 3
    /\ serviceId \in Range(formData.selectedServices)
    /\ SetServices([i \in 1..Len(adjustableServices) |->
            IF adjustableServices[i].id = serviceId
            THEN ResetService(adjustableServices[i])
            ELSE adjustableServices[i]])
    /\ lastOp' = [op |-> "reset", serviceId |-> serviceId,
                  wasAdjusted |-> \E i \in 1..Len(adjustableServices) :
                        /\ adjustableServices[i].id = serviceId
                        /\ adjustableServices[i].isAdjusted]
    /\ UNCHANGED <<otherVars, formData, hasSuggestions, appointments>>

\* the bulk dialog's apply button -> handleBulkAdjustment(adjustedServices)
handleBulkAdjustment(adjustmentType, priceAdjustment, timeAdjustment, reason) ==
    /\ formData.step = 3
    /\ Len(formData.selectedServices) > 1
    /\ SetServices(BulkHandleApply(adjustableServices, adjustmentType,
                                   priceAdjustment, timeAdjustment, reason))
    /\ lastOp' = [op |-> "bulk", type |-> adjustmentType,
                  price |-> priceAdjustment, time |-> timeAdjustment,
                  reason |-> reason]
    /\ UNCHANGED <<otherVars, formData, hasSuggestions, appointments>>

\* the suggestions the dialog shows: history of the customer, analysed
Suggestions ==
    analyzeAdjustmentHistory(GetHistory(appointments, formData.customerId, FALSE),
                             adjustableServices)

\* the suggestion dialog's apply buttons -> handleApplySuggestions(services)
handleApplySuggestions(selectedSuggestions, useAverage) ==
    /\ formData.step = 3
    /\ hasSuggestions
    /\ Len(formData.selectedServices) > 0
    /\ selectedSuggestions # {}
    /\ selectedSuggestions \subseteq {Suggestions[i].serviceId : i \in 1..Len(Suggestions)}
    /\ SetServices(applySuggestions(adjustableServices, Suggestions,
                                    selectedSuggestions, useAverage))
    /\ lastOp' = [op |-> "suggest", selected |-> selectedSuggestions,
                  useAverage |-> useAverage]
    /\ UNCHANGED <<otherVars, formData, hasSuggestions, appointments>>

\* as SubmitBody, sending the adjustable services as the form holds them
SubmitBody_WithMetadata ==
    LET start == InstantOf(formData.date, formData.time) IN
    [ clientName    |-> formData.customerName,
      start         |-> start,
      end           |-> start + totalDuration,
      services      |-> adjustableServices,
      totalPrice    |-> totalPrice,
      totalDuration |-> totalDuration,
      note          |-> formData.note,
      clientId      |-> formData.customerId ]

\* the request body handleSubmit builds
SubmitBody ==
    LET start == InstantOf(formData.date, formData.time) IN
    [ clientName    |-> formData.customerName,
      start         |-> start,
      end           |-> start + totalDuration,
      services      |-> [i \in 1..Len(adjustableServices) |->
                            [ id       |-> adjustableServices[i].id,
                              name     |-> adjustableServices[i].name,
                              duration |-> adjustableServices[i].adjustedDuration,
                              price    |-> adjustableServices[i].adjustedPrice ]],
      totalPrice    |-> totalPrice,
      totalDuration |-> totalDuration,
      note          |-> formData.note,
      clientId      |-> formData.customerId ]

\* handleSubmit : POST the booking, then router.push('/calendar')
handleSubmit ==
    /\ formData.step = 3
    /\ Len(formData.selectedServices) > 0
    /\ POST(SubmitBody)
    /\ formData' = [formData EXCEPT !.step = 0]     \* the form is left
    /\ lastOp' = [op |-> "submit"]
    /\ UNCHANGED <<otherVars, adjustableServices, totalPrice, totalDuration, hasSuggestions>>

(***************************************************************************)
(* Specification of one booking flow                                       *)
(***************************************************************************)
\* a completed visit as stored
Visit(id, clientId, start, services) ==
    [ id |-> id, title |-> JoinNames(services), start |-> start,
      end |-> start + SumDuration(services), clientId |-> clientId,
      clientName |-> DUMMY_CUSTOMERS[clientId].name, services |-> services,
      totalPrice |-> SumPrice(services), totalDuration |-> SumDuration(services),
      note |-> "", status |-> "completed" ]

\* the collection when the form is opened: customer 1 had a shorter, cheaper
\* cut and later a standard cut with a longer, dearer color; customer 2 has
\* no visits
FormStore ==
    << Visit(1, 1, 100, <<[Cut EXCEPT !.duration = 35, !.price = 4000]>>),
       Visit(2, 1, 200, <<Cut, [Color EXCEPT !.duration = 100, !.price = 9000]>>) >>

\* values typed into the form's adjustment dialog
TypedDurations == {0, 60}

TypedPrices == {-100, 5000}

TypedReasons == {"long hair"}

\* directives entered in the bulk dialog
BulkDirectives ==
    { [type |-> "percentage", price |-> -20,   time |-> 0],
      [type |-> "percentage", price |-> -150,  time |-> 0],
      [type |-> "percentage", price |-> 15,    time |-> 10],
      [type |-> "fixed",      price |-> -500,  time |-> 0],
      [type |-> "fixed",      price |-> -5000, time |-> -50],
      [type |-> "time",       price |-> 0,     time |-> 10],
      [type |-> "time",       price |-> -20,   time |-> -50] }

\* values typed into the form's date/time/note inputs
FormChanges == {[name |-> "time", value |-> 630], [name |-> "note", value |-> "memo"]}

FormInit ==
    /\ appointments = FormStore
    /\ editPage = EditPageInit
    /\ IdleForm
    /\ OtherIdle
    /\ analysis = NoAnalysis
    /\ OfficeIdle

SelectCustomer ==
    /\ \E c \in 1..Len(DUMMY_CUSTOMERS) : handleCustomerSelect(DUMMY_CUSTOMERS[c])
    /\ UNCHANGED <<otherVars, editPage, analysis, officeVars>>

NextStep ==
    /\ GoToServices
    /\ UNCHANGED <<otherVars, editPage, analysis, officeVars>>

FormChange ==
    /\ \E c \in FormChanges : handleChange(c.name, c.value)
    /\ UNCHANGED <<otherVars, editPage, analysis, officeVars>>

ToggleService ==
    /\ \E serviceId \in ServiceIds : handleServiceChange(serviceId)
    /\ UNCHANGED <<otherVars, editPage, analysis, officeVars>>

\* the dialog starts from the service's current values; each field is either
\* left alone or overwritten with a typed value
SaveAdjustment ==
    /\ \E i \in 1..Len(adjustableServices) :
          \E d \in TypedDurations \cup {adjustableServices[i].adjustedDuration},
             p \in TypedPrices \cup {adjustableServices[i].adjustedPrice},
             r \in TypedReasons :
                handleServiceAdjustment(adjustableServices[i].id, d, p, r)
    /\ UNCHANGED <<otherVars, editPage, analysis, officeVars>>

Reset ==
    /\ \E serviceId \in ServiceIds : handleResetService(serviceId)
    /\ UNCHANGED <<otherVars, editPage, analysis, officeVars>>

BulkApply ==
    /\ \E d \in BulkDirectives, r \in TypedReasons :
          handleBulkAdjustment(d.type, d.price, d.time, r)
    /\ UNCHANGED <<otherVars, editPage, analysis, officeVars>>

SuggestionApply ==
    /\ \E ticked \in SUBSET ServiceIds, useAverage \in BOOLEAN :
          handleApplySuggestions(ticked, useAverage)
    /\ UNCHANGED <<otherVars, editPage, analysis, officeVars>>

Submit ==
    /\ handleSubmit
    /\ UNCHANGED <<otherVars, editPage, analysis, officeVars>>

FormNext ==
    \/ SelectCustomer
    \/ NextStep
    \/ FormChange
    \/ ToggleService
    \/ SaveAdjustment
    \/ Reset
    \/ BulkApply
    \/ SuggestionApply
    \/ Submit

SpecForm == FormInit /\ [][FormNext]_vars

(***************************************************************************)
(* Claims about the booking form and its adjustment dialogs                *)
(***************************************************************************)
\* C4: every selected service has
\* isAdjusted = (adjustedDuration # baseDuration \/ adjustedPrice # basePrice).
C4_IsAdjustedIsDerived ==
    \A i \in 1..Len(adjustableServices) :
        adjustableServices[i].isAdjusted
            = (adjustableServices[i].adjustedDuration # adjustableServices[i].baseDuration
               \/ adjustableServices[i].adjustedPrice # adjustableServices[i].basePrice)

\* C5: every selected service has adjustedPrice >= 0 and adjustedDuration >= 5.
C5_FloorAndClamp ==
    \A i \in 1..Len(adjustableServices) :
        /\ adjustableServices[i].adjustedPrice >= 0
        /\ adjustableServices[i].adjustedDuration >= 5

\* r is x / 100 rounded to the nearest integer, halves rounded up
IsRoundedHundredth(r, x) == 100 * (2 * r - 1) <= 2 * x /\ 2 * x < 100 * (2 * r + 1)

\* what the claim says a bulk directive makes of one service
BulkAsClaimed(sv, d) ==
    /\ d.type = "percentage"
          => IsRoundedHundredth(sv.adjustedPrice, sv.basePrice * (100 + d.price))
    /\ d.type = "fixed"
          => sv.adjustedPrice = (IF sv.basePrice + d.price < 0 THEN 0
                                 ELSE sv.basePrice + d.price)
    /\ d.type = "time" => sv.adjustedPrice = sv.basePrice
    /\ sv.adjustedDuration = (IF sv.baseDuration + d.time < 5 THEN 5
                              ELSE sv.baseDuration + d.time)
    /\ (d.type = "percentage" /\ d.price = -20 /\ sv.basePrice = 4500)
          => sv.adjustedPrice = 3600
    /\ (d.type = "fixed" /\ d.price = -500 /\ sv.basePrice = 4500)
          => sv.adjustedPrice = 4000
    /\ (d.time = 10 /\ sv.baseDuration = 40) => sv.adjustedDuration = 50
    /\ (d.time = -50 /\ sv.baseDuration = 40) => sv.adjustedDuration = 5

\* C6: after a bulk apply every selected service's adjusted price and
\* duration are the claimed functions of its base values and the directive
\* (percentage: rounded base * (1 + pct/100); fixed: max(0, base + delta);
\* time: max(5, base + minutes)), whatever its adjusted values were before,
\* and applying the same directive again changes nothing.
C6_BulkIsFunctionOfBase ==
    [][ /\ lastOp'.op = "bulk"
            => \A i \in 1..Len(adjustableServices') :
                   BulkAsClaimed(adjustableServices'[i], lastOp')
        /\ (lastOp.op = "bulk" /\ lastOp' = lastOp)
            => /\ adjustableServices' = adjustableServices
               /\ totalPrice' = totalPrice
               /\ totalDuration' = totalDuration ]_vars

\* a bulk apply of fixed(-5000) with time(-50) has run over a cut that had
\* been adjusted before, and left it at price 0 and duration 5
C6_Witness ==
    /\ lastOp.op = "bulk" /\ lastOp.type = "fixed"
    /\ lastOp.price = -5000 /\ lastOp.time = -50
    /\ \E i \in 1..Len(adjustableServices) :
          /\ adjustableServices[i].basePrice = 4500
          /\ adjustableServices[i].adjustedPrice = 0
          /\ adjustableServices[i].adjustedDuration = 5

\* the selected service with the given id
ServiceOf(services, serviceId) ==
    services[CHOOSE i \in 1..Len(services) : services[i].id = serviceId]

\* C7: a reset sets the service's adjusted values to its base values, sets
\* isAdjusted to false and clears the reason, leaves every other selected
\* service as it was, recomputes the totals, and a second reset of the same
\* service changes nothing.
C7_ResetRestoresBase ==
    [][ lastOp'.op = "reset"
        => /\ Len(adjustableServices') = Len(adjustableServices)
           /\ \A i \in 1..Len(adjustableServices) :
                 IF adjustableServices[i].id = lastOp'.serviceId
                 THEN /\ adjustableServices'[i].adjustedDuration
                            = adjustableServices[i].baseDuration
                      /\ adjustableServices'[i].adjustedPrice
                            = adjustableServices[i].basePrice
                      /\ adjustableServices'[i].baseDuration
                            = adjustableServices[i].baseDuration
                      /\ adjustableServices'[i].basePrice
                            = adjustableServices[i].basePrice
                      /\ adjustableServices'[i].isAdjusted = FALSE
                      /\ adjustableServices'[i].adjustmentReason = Undefined
                 ELSE adjustableServices'[i] = adjustableServices[i]
           /\ totalPrice' = totalPrice
                 - ServiceOf(adjustableServices, lastOp'.serviceId).adjustedPrice
                 + ServiceOf(adjustableServices, lastOp'.serviceId).basePrice
           /\ totalDuration' = totalDuration
                 - ServiceOf(adjustableServices, lastOp'.serviceId).adjustedDuration
                 + ServiceOf(adjustableServices, lastOp'.serviceId).baseDuration
           /\ (lastOp.op = "reset" /\ lastOp.serviceId = lastOp'.serviceId)
                 => adjustableServices' = adjustableServices ]_vars

\* an adjusted service has been reset while another adjusted one is selected
C7_Witness ==
    /\ lastOp.op = "reset" /\ lastOp.wasAdjusted
    /\ Len(adjustableServices) = 2
    /\ \E i \in 1..2 : adjustableServices[i].id # lastOp.serviceId
                       /\ adjustableServices[i].isAdjusted
    /\ \E i \in 1..2 : adjustableServices[i].id = lastOp.serviceId
                       /\ ~adjustableServices[i].isAdjusted

\* the statistic a suggestion apply uses for one service
ChosenDuration(sg, useAverage) ==
    IF useAverage THEN sg.averageDuration ELSE sg.lastDuration

ChosenPrice(sg, useAverage) == IF useAverage THEN sg.averagePrice ELSE sg.lastPrice

\* C8: applying a history suggestion gives each ticked service exactly the
\* adjustedDuration, adjustedPrice and isAdjusted that an individual override
\* with the chosen statistic's duration and price gives, and leaves every
\* service that is not ticked as it was.
C8_SuggestionIsOverride ==
    [][ lastOp'.op = "suggest"
        => /\ Len(adjustableServices') = Len(adjustableServices)
           /\ \A i \in 1..Len(adjustableServices) :
                 LET sv == adjustableServices[i]
                     found == FindSuggestion(Suggestions, sv.id)
                 IN IF sv.id \in lastOp'.selected /\ found # <<>>
                    THEN LET o == AdjustedService(sv,
                                      ChosenDuration(found[1], lastOp'.useAverage),
                                      ChosenPrice(found[1], lastOp'.useAverage), "")
                         IN /\ adjustableServices'[i].adjustedDuration = o.adjustedDuration
                            /\ adjustableServices'[i].adjustedPrice = o.adjustedPrice
                            /\ adjustableServices'[i].isAdjusted = o.isAdjusted
                    ELSE adjustableServices'[i] = sv ]_vars

(***************************************************************************)
(* app/api/customers/[id]/history : POST (analysis)                        *)
(***************************************************************************)
\* as CompletedAppointments, without the status condition of the filter
CompletedAppointments_AnyStatus(store, customerId) ==
    LET completed == SelectSeq(store, LAMBDA appointment :
                        appointment.clientId = customerId)
    IN StableSortDesc(completed, StartsOf(completed))

\* the customer's completed appointments, most recent first
CompletedAppointments(store, customerId) ==
    LET completed == SelectSeq(store, LAMBDA appointment :
                        appointment.clientId = customerId
                        /\ appointment.status = "completed")
    IN StableSortDesc(completed, StartsOf(completed))

\* the adjustments pushed for one service id while walking one services list
RECURSIVE AdjustmentsInServices(_, _, _)
AdjustmentsInServices(services, serviceId, appointment) ==
    IF services = <<>> THEN <<>>
    ELSE (IF services[1].id = serviceId
          THEN <<[ duration        |-> services[1].duration,
                   price           |-> services[1].price,
                   appointmentDate |-> appointment.start,
                   appointmentId   |-> appointment.id ]>>
          ELSE <<>>) \o AdjustmentsInServices(Tail(services), serviceId, appointment)

\* serviceAnalysis[serviceId].adjustments after the walk over the appointments
RECURSIVE AdjustmentsOf(_, _)
AdjustmentsOf(appts, serviceId) ==
    IF appts = <<>> THEN <<>>
    ELSE AdjustmentsInServices(appts[1].services, serviceId, appts[1])
            \o AdjustmentsOf(Tail(appts), serviceId)

\* serviceAnalysis[serviceId].serviceName : the name at the first use
RECURSIVE FirstNameOf(_, _)
FirstNameOf(appts, serviceId) ==
    LET named == SelectSeq(appts[1].services, LAMBDA sv : sv.id = serviceId) IN
    IF named # <<>> THEN named[1].name ELSE FirstNameOf(Tail(appts), serviceId)

\* as Recent3, with slice(0, 2)
Recent3_TwoOnly(adjustments) == SubSeq(adjustments, 1, Min(2, Len(adjustments)))

\* adjustments.slice(0, 3)
Recent3(adjustments) == SubSeq(adjustments, 1, Min(3, Len(adjustments)))

\* Object.keys of a frequency table: its keys are non-negative integers,
\* which an object enumerates in ascending numeric order
RECURSIVE KeysAscending(_)
KeysAscending(S) ==
    IF S = {} THEN <<>>
    ELSE LET m == CHOOSE x \in S : \A y \in S : x <= y
         IN <<m>> \o KeysAscending(S \ {m})

\* durationFreq[v] / priceFreq[v] : the number of adjustments with value v
Frequency(values, v) == Cardinality({i \in 1..Len(values) : values[i] = v})

\* keys.reduce((a, b) => freq[a] > freq[b] ? a : b) from accumulator a on
RECURSIVE ReduceMode(_, _, _)
ReduceMode(values, a, rest) ==
    IF rest = <<>> THEN a
    ELSE ReduceMode(values,
                    IF Frequency(values, a) > Frequency(values, Head(rest))
                    THEN a ELSE Head(rest),
                    Tail(rest))

\* the mode the analysis reports for a non-empty list of values
MostCommon(values) ==
    LET keys == KeysAscending(Range(values))
    IN ReduceMode(values, Head(keys), Tail(keys))

\* the statistics record of one analysed service
AnalysisRecord(serviceId, serviceName, adjustments) ==
    LET latest == adjustments[1]
        recent3 == Recent3(adjustments)
    IN [ serviceId           |-> serviceId,
         serviceName         |-> serviceName,
         totalUsage          |-> Len(adjustments),
         averageDuration     |-> MathRound(SumDuration(adjustments), Len(adjustments)),
         averagePrice        |-> MathRound(SumPrice(adjustments), Len(adjustments)),
         mostCommonDuration  |-> MostCommon([i \in 1..Len(adjustments)
                                                |-> adjustments[i].duration]),
         mostCommonPrice     |-> MostCommon([i \in 1..Len(adjustments)
                                                |-> adjustments[i].price]),
         latestDuration      |-> latest.duration,
         latestPrice         |-> latest.price,
         recentTrendDuration |-> IF Len(recent3) > 0
                                 THEN MathRound(SumDuration(recent3), Len(recent3))
                                 ELSE 0,
         recentTrendPrice    |-> IF Len(recent3) > 0
                                 THEN MathRound(SumPrice(recent3), Len(recent3))
                                 ELSE 0,
         lastAppointmentDate |-> latest.appointmentDate,
         adjustmentHistory   |-> SubSeq(adjustments, 1, Min(10, Len(adjustments))) ]

\* Object.values(serviceAnalysis) : the keys are canonical numeric strings,
\* which an object enumerates in ascending numeric order
RECURSIVE AnalysisOfIds(_, _, _)
AnalysisOfIds(ids, completedAppointments, upTo) ==
    IF upTo = 0 THEN <<>>
    ELSE AnalysisOfIds(ids, completedAppointments, upTo - 1)
            \o (IF upTo \in ids /\ AdjustmentsOf(completedAppointments, upTo) # <<>>
                THEN <<AnalysisRecord(upTo,
                                      FirstNameOf(completedAppointments, upTo),
                                      AdjustmentsOf(completedAppointments, upTo))>>
                ELSE <<>>)

\* the greatest service id stored in a list of appointments
RECURSIVE MaxServiceId(_)
MaxServiceId(appts) ==
    IF appts = <<>> THEN 0
    ELSE Max(MaxId(appts[1].services), MaxServiceId(Tail(appts)))

\* POST /api/customers/[id]/history : analysisResults
analyzeAdjustments(store, customerId, serviceIds) ==
    LET completedAppointments == CompletedAppointments(store, customerId) IN
    AnalysisOfIds(serviceIds, completedAppointments, MaxServiceId(completedAppointments))

(***************************************************************************)
(* Specifications of the history analysis over stored histories            *)
(***************************************************************************)
\* a stored appointment of a history
Stored(clientId, status, start, services) ==
    [Visit(0, clientId, start, services) EXCEPT !.status = status]

CutShort == [Cut EXCEPT !.duration = 35, !.price = 4000]

CutLong == [Cut EXCEPT !.duration = 50, !.price = 4000]

ColorLong == [Color EXCEPT !.duration = 100, !.price = 9000]

\* histories that differ in owner, status and services
FilterTemplates ==
    { Stored(c, st, t, svs) :
        c \in {1, 2}, st \in Statuses, t \in {100, 200},
        svs \in {<<CutShort>>, <<Cut, ColorLong>>} }

\* histories of customer 1 that differ in date, duration and price, with one
\* visit of another customer and one cancelled appointment among them
StatsTemplates ==
    { Stored(1, "completed", t, svs) :
        t \in {100, 200}, svs \in {<<Cut>>, <<CutShort>>} }
    \cup { Stored(2, "completed", 300, <<ColorLong, CutLong>>),
           Stored(1, "cancelled", 300, <<CutLong>>) }

\* the collections of at most n appointments drawn from the templates,
\* with ids 1..n in stored order
StoresOf(templates, n) ==
    UNION { { [i \in 1..k |-> [f[i] EXCEPT !.id = i]] : f \in [1..k -> templates] }
            : k \in 0..n }

\* the AdjustableServices of a form in which the given catalog entries are selected
SelectedOf(ids) ==
    LET chosen == SelectSeq(DUMMY_SERVICES, LAMBDA sv : sv.id \in ids) IN
    [i \in 1..Len(chosen) |-> NewAdjustable(chosen[i])]

\* a client posts serviceIds to the analysis endpoint of a customer
AnalyzeServer(customerId, serviceIds) ==
    /\ analysis' = [ kind |-> "server", customerId |-> customerId,
                     serviceIds |-> serviceIds,
                     result |-> analyzeAdjustments(appointments, customerId, serviceIds) ]
    /\ UNCHANGED <<otherVars, appointments, editPage, formVars, officeVars>>

\* the suggestion dialog fetches the customer's history and analyses it
AnalyzeClient(customerId, serviceIds) ==
    /\ analysis' = [ kind |-> "client", customerId |-> customerId,
                     serviceIds |-> serviceIds,
                     result |-> analyzeAdjustmentHistory(
                                    GetHistory(appointments, customerId, FALSE),
                                    SelectedOf(serviceIds)) ]
    /\ UNCHANGED <<otherVars, appointments, editPage, formVars, officeVars>>

AnalysisRequests == {{1}, {2}, {1, 2}}

AnalysisCustomers == {1}

HistNext ==
    \/ \E c \in AnalysisCustomers, ids \in AnalysisRequests : AnalyzeServer(c, ids)
    \/ \E c \in AnalysisCustomers, ids \in AnalysisRequests : AnalyzeClient(c, ids)

HistFilterInit ==
    /\ appointments \in StoresOf(FilterTemplates, MaxHistory)
    /\ editPage = EditPageInit
    /\ IdleForm
    /\ OtherIdle
    /\ analysis = NoAnalysis
    /\ OfficeIdle

HistStatsInit ==
    /\ appointments \in StoresOf(StatsTemplates, MaxVisits)
    /\ editPage = EditPageInit
    /\ IdleForm
    /\ OtherIdle
    /\ analysis = NoAnalysis
    /\ OfficeIdle

SpecHistFilter == HistFilterInit /\ [][HistNext]_vars

SpecHistStats == HistStatsInit /\ [][HistNext]_vars

(***************************************************************************)
(* Claims about the history analysis                                       *)
(***************************************************************************)
\* the positions <<appointment, service>> of the stored uses of a service in
\* completed appointments of a customer
MatchingUses(customerId, serviceId) ==
    { u \in UNION { {<<a, k>> : k \in 1..Len(appointments[a].services)} :
                      a \in 1..Len(appointments) } :
        /\ appointments[u[1]].clientId = customerId
        /\ appointments[u[1]].status = "completed"
        /\ appointments[u[1]].services[u[2]].id = serviceId }

UseStart(u) == appointments[u[1]].start

UseDuration(u) == appointments[u[1]].services[u[2]].duration

UsePrice(u) == appointments[u[1]].services[u[2]].price

\* the number of uses a returned record reports
UsesCount(r) == IF "totalUsage" \in DOMAIN r THEN r.totalUsage ELSE r.frequency

\* C9: the analysis of (customerId, serviceIds) returns exactly one record for
\* each requested service id that is used in a completed appointment of that
\* customer, and none for any other id; the record counts exactly those uses,
\* so that other customers' and scheduled or cancelled appointments add
\* nothing and no record is zero-filled.
C9_OneRecordPerUsedService ==
    analysis.kind # "none" =>
        LET res == analysis.result
            expected == { sid \in analysis.serviceIds :
                            MatchingUses(analysis.customerId, sid) # {} }
        IN /\ {res[i].serviceId : i \in 1..Len(res)} = expected
           /\ Len(res) = Cardinality(expected)
           /\ \A i \in 1..Len(res) :
                 /\ UsesCount(res[i])
                      = Cardinality(MatchingUses(analysis.customerId, res[i].serviceId))
                 /\ UsesCount(res[i]) > 0

\* both services were requested, only the cut is returned: the customer's
\* color is in an appointment that is not completed
C9_Witness ==
    /\ analysis.kind = "server"
    /\ analysis.serviceIds = {1, 2}
    /\ Len(analysis.result) = 1
    /\ analysis.result[1].serviceId = 1
    /\ \E a \in 1..Len(appointments) :
          /\ appointments[a].clientId = analysis.customerId
          /\ appointments[a].status # "completed"
          /\ \E k \in 1..Len(appointments[a].services) :
                appointments[a].services[k].id = 2

RECURSIVE SumUseDuration(_)
SumUseDuration(U) ==
    IF U = {} THEN 0
    ELSE LET u == CHOOSE x \in U : TRUE IN UseDuration(u) + SumUseDuration(U \ {u})

RECURSIVE SumUsePrice(_)
SumUsePrice(U) ==
    IF U = {} THEN 0
    ELSE LET u == CHOOSE x \in U : TRUE IN UsePrice(u) + SumUsePrice(U \ {u})

\* r is total / n rounded to the nearest integer, halves rounded up
IsRoundedMean(r, total, n) == n * (2 * r - 1) <= 2 * total /\ 2 * total < n * (2 * r + 1)

\* the latest values a returned record reports
LatestDuration(r) ==
    IF "latestDuration" \in DOMAIN r THEN r.latestDuration ELSE r.lastDuration

LatestPrice(r) == IF "latestPrice" \in DOMAIN r THEN r.latestPrice ELSE r.lastPrice

\* C10: for each returned service the latest duration and price are those
\* of a use with the greatest start, the averages are the rounded means over
\* all uses, and the recent-trend values are the rounded means over the
\* min(3, n) most recent uses; prices 4500, 4000, 4000 (most recent first)
\* give latest 4500, average 4167 and recent trend 4167.
C10_StatisticsOfUses ==
    analysis.kind # "none" =>
        \A i \in 1..Len(analysis.result) :
            LET r == analysis.result[i]
                U == MatchingUses(analysis.customerId, r.serviceId)
                n == Cardinality(U)
            IN /\ \E u \in U :
                     /\ \A v \in U : UseStart(v) <= UseStart(u)
                     /\ LatestDuration(r) = UseDuration(u)
                     /\ LatestPrice(r) = UsePrice(u)
               /\ IsRoundedMean(r.averageDuration, SumUseDuration(U), n)
               /\ IsRoundedMean(r.averagePrice, SumUsePrice(U), n)
               /\ analysis.kind = "server" =>
                     /\ \E R \in SUBSET U :
                           /\ Cardinality(R) = (IF n < 3 THEN n ELSE 3)
                           /\ \A u \in R, v \in U \ R : UseStart(v) <= UseStart(u)
                           /\ IsRoundedMean(r.recentTrendDuration,
                                            SumUseDuration(R), Cardinality(R))
                           /\ IsRoundedMean(r.recentTrendPrice,
                                            SumUsePrice(R), Cardinality(R))
                     /\ (/\ n = 3
                         /\ SumUsePrice(U) = 12500
                         /\ \E u \in U : /\ UsePrice(u) = 4500
                                         /\ \A v \in U \ {u} : UseStart(v) < UseStart(u))
                           => /\ r.latestPrice = 4500
                              /\ r.averagePrice = 4167
                              /\ r.recentTrendPrice = 4167

\* four uses, stored oldest first, whose recent trend differs from the average
C10_Witness ==
    /\ analysis.kind = "server"
    /\ Len(analysis.result) = 1
    /\ analysis.result[1].totalUsage = 4
    /\ analysis.result[1].recentTrendPrice # analysis.result[1].averagePrice
    /\ analysis.result[1].recentTrendDuration # analysis.result[1].averageDuration
    /\ analysis.result[1].latestPrice # appointments[1].services[1].price
    /\ \A a \in 2..Len(appointments) : appointments[a].start >= appointments[1].start
    /\ \E a \in 2..Len(appointments) : appointments[a].start > appointments[1].start

(***************************************************************************)
(* Claim about the modes of the history analysis                           *)
(***************************************************************************)
\* the number of uses in U whose value, taken by Duration or Price, is v
UsesWithDuration(U, v) == Cardinality({u \in U : UseDuration(u) = v})

UsesWithPrice(U, v) == Cardinality({u \in U : UsePrice(u) = v})

\* C11: for each service the analysis endpoint returns, mostCommonDuration
\* and mostCommonPrice are values of maximal frequency among the service's
\* completed uses, and among the values that tie for the maximal frequency
\* the one returned is the first in the iteration order of the candidate
\* values (the frequency table's keys, ascending).
C11_ModeFirstOnTie ==
    analysis.kind = "server" =>
        \A i \in 1..Len(analysis.result) :
            LET r == analysis.result[i]
                U == MatchingUses(analysis.customerId, r.serviceId)
                durations == {UseDuration(u) : u \in U}
                prices == {UsePrice(u) : u \in U}
                topDurations == {d \in durations : \A e \in durations :
                                    UsesWithDuration(U, e) <= UsesWithDuration(U, d)}
                topPrices == {p \in prices : \A q \in prices :
                                    UsesWithPrice(U, q) <= UsesWithPrice(U, p)}
            IN /\ r.mostCommonDuration \in topDurations
               /\ r.mostCommonPrice \in topPrices
               /\ \A d \in topDurations : r.mostCommonDuration <= d
               /\ \A p \in topPrices : r.mostCommonPrice <= p

(***************************************************************************)
(* app/api/customers : handlers                                            *)
(*                                                                         *)
(* A customer keeps id, name, phone, the stored statistics and its         *)
(* preferences; kana, email, birthday, gender, address, memo and the       *)
(* timestamps take no part in any condition and are left out.              *)
(***************************************************************************)
\* an object without fields
EmptyObject == [f \in {} |-> 0]

\* a truthy string field of a body
HasText(body, f) == f \in DOMAIN body /\ body[f] # ""

\* POST /api/customers : !newCustomer.name || !newCustomer.phone
CustomerPostValid(newCustomer) == HasText(newCustomer, "name") /\ HasText(newCustomer, "phone")

\* POST /api/customers : the customer that is stored
NewCustomer(store, newCustomer) ==
    [ id           |-> MaxId(store) + 1,
      name         |-> newCustomer.name,
      phone        |-> newCustomer.phone,
      totalVisits  |-> 0,
      totalSpent   |-> 0,
      averageSpent |-> 0,
      preferences  |-> IF "preferences" \in DOMAIN newCustomer
                       THEN newCustomer.preferences ELSE EmptyObject ]

\* POST /api/customers
CustomersPOST(newCustomer) ==
    IF ~CustomerPostValid(newCustomer)
    THEN /\ response' = [op |-> "createCustomer", status |-> 400]
         /\ UNCHANGED customers
    ELSE IF \E i \in 1..Len(customers) : customers[i].phone = newCustomer.phone
    THEN /\ response' = [op |-> "createCustomer", status |-> 400]
         /\ UNCHANGED customers
    ELSE /\ customers' = Append(customers, NewCustomer(customers, newCustomer))
         /\ response' = [op |-> "createCustomer", status |-> 201]

\* PUT /api/customers/[id] : { ...existingCustomer, ...updatedData, id: params.id }
MergeCustomer(existingCustomer, updatedData, id) ==
    [id |-> id] @@ updatedData @@ existingCustomer

\* PUT /api/customers/[id]
CustomerPUT(id, updatedData) ==
    LET customerIndex == FindIndex(customers, id) IN
    IF customerIndex = 0
    THEN /\ response' = [op |-> "updateCustomer", status |-> 404]
         /\ UNCHANGED customers
    ELSE /\ customers' = [customers EXCEPT ![customerIndex] =
                             MergeCustomer(customers[customerIndex], updatedData, id)]
         /\ response' = [op |-> "updateCustomer", status |-> 200]

\* DELETE /api/customers/[id]
CustomerDELETE(id) ==
    LET customerIndex == FindIndex(customers, id) IN
    IF customerIndex = 0
    THEN /\ response' = [op |-> "deleteCustomer", status |-> 404]
         /\ UNCHANGED customers
    ELSE /\ customers' = SubSeq(customers, 1, customerIndex - 1)
                            \o SubSeq(customers, customerIndex + 1, Len(customers))
         /\ response' = [op |-> "deleteCustomer", status |-> 200]

\* GET /api/customers/[id] : the customer's appointments, most recent first
CustomerAppointments(store, id) ==
    LET own == SelectSeq(store, LAMBDA appointment : appointment.clientId = id)
    IN StableSortDesc(own, StartsOf(own))

\* as CompletedOf, counting every appointment that was not cancelled
CompletedOf_NotCancelled(customerAppointments) ==
    SelectSeq(customerAppointments, LAMBDA a : a.status # "cancelled")

\* customerAppointments.filter(a => a.status === 'completed')
CompletedOf(customerAppointments) ==
    SelectSeq(customerAppointments, LAMBDA a : a.status = "completed")

\* completedAppointments.reduce((sum, a) => sum + a.totalPrice, 0)
RECURSIVE SumTotalPrice(_)
SumTotalPrice(appts) ==
    IF appts = <<>> THEN 0 ELSE appts[1].totalPrice + SumTotalPrice(Tail(appts))

\* the service names of the appointments in the order of the walk
RECURSIVE NamesWalked(_)
NamesWalked(appts) ==
    IF appts = <<>> THEN <<>>
    ELSE JoinNames(appts[1].services) \o NamesWalked(Tail(appts))

\* Object.keys(serviceCount) : the names in the order of their first insertion
RECURSIVE FirstOccurrences(_)
FirstOccurrences(names) ==
    IF names = <<>> THEN <<>>
    ELSE LET before == FirstOccurrences(SubSeq(names, 1, Len(names) - 1))
             last == names[Len(names)]
         IN IF last \in Range(before) THEN before ELSE Append(before, last)

\* as FavoriteSlice, with slice(0, 6)
FavoriteSlice_Six(entries) == SubSeq(entries, 1, Min(6, Len(entries)))

\* .slice(0, 5)
FavoriteSlice(entries) == SubSeq(entries, 1, Min(5, Len(entries)))

\* Object.entries(serviceCount).sort(([,a], [,b]) => b - a).slice(0, 5).map(...)
FavoriteServices(completedAppointments) ==
    LET walked == NamesWalked(completedAppointments)
        keys == FirstOccurrences(walked)
        counts == [i \in 1..Len(keys) |-> Frequency(walked, keys[i])]
    IN FavoriteSlice(StableSortDesc(keys, counts))

\* GET /api/customers/[id] : customerWithStats (lastVisit: undefined is not
\* serialised)
CustomerWithStats(customer, store) ==
    LET customerAppointments == CustomerAppointments(store, customer.id)
        completedAppointments == CompletedOf(customerAppointments)
        totalSpent == SumTotalPrice(completedAppointments)
        totalVisits == Len(completedAppointments)
        averageSpent == IF totalVisits > 0 THEN MathRound(totalSpent, totalVisits) ELSE 0
        stats == [ totalSpent   |-> totalSpent,
                   totalVisits  |-> totalVisits,
                   averageSpent |-> averageSpent,
                   preferences  |->
                       [favoriteServices |-> FavoriteServices(completedAppointments)]
                           @@ customer.preferences,
                   appointments |-> customerAppointments ]
        lastVisit == IF completedAppointments # <<>>
                     THEN [lastVisit |-> completedAppointments[1].start]
                     ELSE EmptyObject
    IN lastVisit @@ stats @@ [f \in DOMAIN customer \ {"lastVisit"} |-> customer[f]]

\* GET /api/customers/[id]
CustomerGET(id) ==
    LET customerIndex == FindIndex(customers, id) IN
    /\ response' =
          IF customerIndex = 0
          THEN [op |-> "getCustomer", id |-> id, status |-> 404]
          ELSE [op |-> "getCustomer", id |-> id, status |-> 200,
                body |-> CustomerWithStats(customers[customerIndex], appointments)]
    /\ UNCHANGED customers

(***************************************************************************)
(* Specification of the customer projection over stored appointments       *)
(***************************************************************************)
\* appointments of a stored history that is projected
MaxCustVisits == 3

Perm == [id |-> 3, name |-> "perm", duration |-> 120, price |-> 12000]

Treatment == [id |-> 4, name |-> "treatment", duration |-> 30, price |-> 3000]

Spa == [id |-> 5, name |-> "spa", duration |-> 40, price |-> 5000]

Blow == [id |-> 6, name |-> "blow", duration |-> 20, price |-> 2000]

\* histories of customer 1 with six service names between them, a cancelled
\* and a scheduled appointment, and a visit of customer 2
CustomerTemplates ==
    { Stored(1, "completed", 100, <<Color>>),
      Stored(1, "completed", 100, <<Cut, Color, Perm, Treatment>>),
      Stored(1, "completed", 200, <<Cut, Color, Perm, Treatment>>),
      Stored(1, "completed", 100, <<Blow, Spa, Cut>>),
      Stored(1, "completed", 200, <<Blow, Spa, Cut>>),
      Stored(1, "cancelled", 300, <<Spa>>),
      Stored(1, "scheduled", 300, <<Blow, Spa, Cut>>),
      Stored(2, "completed", 300, <<Color>>) }

\* the stored customers, with the statistics written at their creation
StoredCustomers ==
    << NewCustomer(<<>>, [name |-> "tanaka", phone |-> "090"]),
       [NewCustomer(<<>>, [name |-> "sato", phone |-> "080"]) EXCEPT !.id = 2] >>

\* ids asked for, one of them unknown
CustomerIdsAsked == {1, 2, 3}

GetCustomer ==
    /\ \E id \in CustomerIdsAsked : CustomerGET(id)
    /\ UNCHANGED <<otherVars, appointments, editPage, formVars, analysis, servicesData>>

CustStatsInit ==
    /\ appointments \in StoresOf(CustomerTemplates, MaxCustVisits)
    /\ editPage = EditPageInit
    /\ IdleForm
    /\ OtherIdle
    /\ analysis = NoAnalysis
    /\ customers = StoredCustomers
    /\ servicesData = DefaultServices
    /\ response = NoResponse

CustStatsNext ==
    \/ GetCustomer

SpecCustStats == CustStatsInit /\ [][CustStatsNext]_vars

(***************************************************************************)
(* Claims about the customer projection                                    *)
(***************************************************************************)
\* the stored positions of the completed appointments of a customer
CompletedVisits(customerId) ==
    { a \in 1..Len(appointments) :
        /\ appointments[a].clientId = customerId
        /\ appointments[a].status = "completed" }

RECURSIVE SumVisitPrice(_)
SumVisitPrice(V) ==
    IF V = {} THEN 0
    ELSE LET a == CHOOSE x \in V : TRUE
         IN appointments[a].totalPrice + SumVisitPrice(V \ {a})

\* a getCustomer answer carries the projection of the customer's completed
\* appointments
IsProjection(body, customerId) ==
    LET V == CompletedVisits(customerId)
        n == Cardinality(V)
    IN /\ body.totalVisits = n
       /\ body.totalSpent = SumVisitPrice(V)
       /\ IF n > 0
          THEN /\ IsRoundedMean(body.averageSpent, SumVisitPrice(V), n)
               /\ "lastVisit" \in DOMAIN body
               /\ \E a \in V : /\ body.lastVisit = appointments[a].start
                               /\ \A b \in V : appointments[b].start <= appointments[a].start
          ELSE /\ body.averageSpent = 0
               /\ "lastVisit" \notin DOMAIN body

\* C12: getCustomer(id) answers with totalVisits = the number of the
\* customer's completed appointments, totalSpent = the sum of their
\* totalPrice, averageSpent = round(totalSpent / totalVisits) or 0 when
\* there are none, lastVisit = their greatest start (absent when there are
\* none); scheduled, cancelled and other customers' appointments add
\* nothing: one completed at 8000 and one cancelled at 5000 give 1, 8000, 8000.
C12_ProjectionOfCompleted ==
    (response.op = "getCustomer" /\ response.status = 200) =>
        /\ IsProjection(response.body, response.id)
        /\ (/\ Cardinality(CompletedVisits(response.id)) = 1
            /\ \A a \in CompletedVisits(response.id) : appointments[a].totalPrice = 8000)
              => /\ response.body.totalVisits = 1
                 /\ response.body.totalSpent = 8000
                 /\ response.body.averageSpent = 8000

\* customer 1 has one completed appointment at 8000 and one cancelled at 5000
C12_Witness ==
    /\ response.op = "getCustomer"
    /\ response.status = 200
    /\ response.body.totalVisits = 1
    /\ response.body.totalSpent = 8000
    /\ \E a \in 1..Len(appointments) :
          /\ appointments[a].clientId = response.id
          /\ appointments[a].status = "cancelled"
          /\ appointments[a].totalPrice = 5000

\* the positions <<appointment, service>> of the services in the completed
\* appointments of a customer
CompletedUses(customerId) ==
    UNION { {<<a, k>> : k \in 1..Len(appointments[a].services)} :
              a \in CompletedVisits(customerId) }

UseName(u) == appointments[u[1]].services[u[2]].name

\* the number of uses of a name
NameCount(customerId, name) ==
    Cardinality({u \in CompletedUses(customerId) : UseName(u) = name})

\* use u is met before use v when the appointments are walked most recent
\* first (equal starts in stored order) and the services of each in order
MetBefore(u, v) ==
    \/ appointments[u[1]].start > appointments[v[1]].start
    \/ appointments[u[1]].start = appointments[v[1]].start /\ u[1] < v[1]
    \/ u[1] = v[1] /\ u[2] < v[2]

\* name m is first encountered before name n
FirstMetBefore(customerId, m, n) ==
    \E u \in CompletedUses(customerId) :
        /\ UseName(u) = m
        /\ \A v \in CompletedUses(customerId) : UseName(v) = n => MetBefore(u, v)

\* C13: favoriteServices of a getCustomer answer lists, without repetition,
\* min(5, number of used names) service names of the customer's completed
\* appointments; no name left out is used more often than a listed one, the
\* list is in descending order of usage count, and among names of equal
\* count (listed, or listed against left out) the one first encountered
\* comes first.
C13_FavoriteServices ==
    (response.op = "getCustomer" /\ response.status = 200) =>
        LET fav == response.body.preferences.favoriteServices
            used == {UseName(u) : u \in CompletedUses(response.id)}
            count(n) == NameCount(response.id, n)
        IN /\ Len(fav) = Min(5, Cardinality(used))
           /\ Range(fav) \subseteq used
           /\ \A i, j \in 1..Len(fav) : i < j =>
                 /\ fav[i] # fav[j]
                 /\ count(fav[i]) >= count(fav[j])
                 /\ count(fav[i]) = count(fav[j])
                       => FirstMetBefore(response.id, fav[i], fav[j])
           /\ \A n \in used \ Range(fav) : \A i \in 1..Len(fav) :
                 /\ count(n) <= count(fav[i])
                 /\ count(n) = count(fav[i]) => FirstMetBefore(response.id, fav[i], n)

\* six names are used, two of them twice; the most recent appointment is
\* stored last, so that the names are met in another order than stored
C13_Witness ==
    /\ response.op = "getCustomer"
    /\ response.status = 200
    /\ Cardinality({UseName(u) : u \in CompletedUses(response.id)}) = 6
    /\ Len(response.body.preferences.favoriteServices) = 5
    /\ response.body.preferences.favoriteServices[1] = "cut"
    /\ response.body.preferences.favoriteServices[2] = "color"
    /\ response.body.preferences.favoriteServices[3] = "blow"
    /\ appointments[1].services[1].name = "color"
    /\ appointments[Len(appointments)].services[1].name = "blow"
    /\ appointments[Len(appointments)].start = 200

(***************************************************************************)
(* GET /api/customers and the specification of the customers collection    *)
(***************************************************************************)
\* the names of the customers in the order of the string comparison a < b
NameOrder == <<"sato", "tanaka">>

\* the sort key of a customer for sortBy
SortKey(customer, sortBy) ==
    IF sortBy = "totalVisits" THEN customer.totalVisits
    ELSE IF sortBy = "totalSpent" THEN customer.totalSpent
    ELSE CHOOSE i \in 1..Len(NameOrder) : NameOrder[i] = customer.name

\* filteredCustomers.sort(...) without a search: the stored customers, sorted
ListCustomers(store, sortBy, sortOrder) ==
    LET keys == [i \in 1..Len(store) |-> SortKey(store[i], sortBy)]
    IN IF sortOrder = "desc"
       THEN StableSortDesc(store, keys)
       ELSE StableSortDesc(store, [i \in 1..Len(store) |-> 0 - keys[i]])

\* GET /api/customers?sortBy=...&sortOrder=...
CustomersGET(sortBy, sortOrder) ==
    /\ response' = [op |-> "listCustomers", status |-> 200,
                    body |-> ListCustomers(customers, sortBy, sortOrder)]
    /\ UNCHANGED customers

\* customers stored at once
MaxCustomers == 2

\* bodies of POST /api/customers: two customers, one with the phone number
\* of another, one without a phone number
CustomerBodies ==
    { [name |-> "tanaka", phone |-> "090"],
      [name |-> "sato", phone |-> "080"],
      [name |-> "sato", phone |-> "090"],
      [name |-> "sato"] }

\* patches of PUT /api/customers/[id]: a phone number, statistics
CustomerPatches ==
    { [phone |-> "090"], [totalVisits |-> 9, totalSpent |-> 9000] }

CustomerIds == 1..MaxCustomers

\* bookings of the customers, as the booking form sends them
VisitBodies ==
    { [clientName |-> DUMMY_CUSTOMERS[c].name, clientId |-> c, start |-> 600,
       end |-> 640, services |-> <<Cut>>, totalPrice |-> 4500,
       totalDuration |-> 40, note |-> ""]
        : c \in 1..Len(DUMMY_CUSTOMERS) }

SortParameters == {"name", "totalVisits"} \X {"asc", "desc"}

CreateCustomer ==
    /\ Len(customers) < MaxCustomers
    /\ \E body \in CustomerBodies : CustomersPOST(body)
    /\ UNCHANGED <<otherVars, appointments, editPage, formVars, analysis, servicesData>>

UpdateCustomer ==
    /\ \E id \in CustomerIds, patch \in CustomerPatches : CustomerPUT(id, patch)
    /\ UNCHANGED <<otherVars, appointments, editPage, formVars, analysis, servicesData>>

DeleteCustomer ==
    /\ \E id \in CustomerIds : CustomerDELETE(id)
    /\ UNCHANGED <<otherVars, appointments, editPage, formVars, analysis, servicesData>>

ReadCustomers ==
    /\ \E q \in SortParameters : CustomersGET(q[1], q[2])
    /\ UNCHANGED <<otherVars, appointments, editPage, formVars, analysis, servicesData>>

BookVisit ==
    /\ Len(appointments) < MaxAppointments
    /\ \E body \in VisitBodies : POST(body)
    /\ UNCHANGED <<otherVars, editPage, formVars, analysis, officeVars>>

SetStatus ==
    /\ \E id \in AppointmentIds, st \in Statuses : PUT(id, [status |-> st])
    /\ UNCHANGED <<otherVars, editPage, formVars, analysis, officeVars>>

CustomersNext ==
    \/ CreateCustomer
    \/ UpdateCustomer
    \/ DeleteCustomer
    \/ GetCustomer
    \/ ReadCustomers
    \/ BookVisit
    \/ SetStatus
    \/ ApiDelete

SpecCustomers == ApptInit /\ [][CustomersNext]_vars

(***************************************************************************)
(* Claims about the customers collection                                   *)
(***************************************************************************)
\* C14: whenever a customer is read, by GET /api/customers/[id] or in the
\* list of GET /api/customers, its totalVisits, totalSpent, averageSpent and
\* lastVisit are the projection of the completed appointments stored at
\* that moment, after any creations, status changes and deletions of
\* appointments and any updates of customers.
C14_EveryReadRecomputes ==
    [][ (response' # response /\ response'.status = 200) =>
          /\ response'.op = "getCustomer"
                => IsProjection(response'.body, response'.id)
          /\ response'.op = "listCustomers"
                => \A i \in 1..Len(response'.body) :
                      IsProjection(response'.body[i], response'.body[i].id) ]_vars

\* C18: no two stored customers have the same phone number.
C18_PhonesUnique ==
    \A i, j \in 1..Len(customers) :
        i # j => customers[i].phone # customers[j].phone

(***************************************************************************)
(* app/api/services : handlers                                             *)
(*                                                                         *)
(* A service keeps id, name, duration, price, category, isActive and       *)
(* updatedAt; description and createdAt are left out.  The instant of a    *)
(* request (new Date()) is an input of its handler.                        *)
(***************************************************************************)
\* String.prototype.trim on the names that are sent
Trim(str) == IF str = " cut" THEN "cut" ELSE IF str = " " THEN "" ELSE str

\* a truthy numeric field of a body (0 is falsy)
HasNumber(body, f) == f \in DOMAIN body /\ body[f] # 0

\* POST /api/services : the two validations
ServicePostValid(newService) ==
    /\ HasText(newService, "name")
    /\ HasNumber(newService, "duration")
    /\ HasNumber(newService, "price")
    /\ HasText(newService, "category")
    /\ ~(newService.duration <= 0 \/ newService.price < 0)

\* POST /api/services : the service that is stored
NewService(store, newService, now) ==
    [ id        |-> MaxId(store) + 1,
      name      |-> Trim(newService.name),
      duration  |-> newService.duration,
      price     |-> newService.price,
      category  |-> Trim(newService.category),
      isActive  |-> TRUE,
      updatedAt |-> now ]

\* POST /api/services
ServicesPOST(newService, now) ==
    IF ~ServicePostValid(newService)
    THEN /\ response' = [op |-> "createService", status |-> 400]
         /\ UNCHANGED servicesData
    ELSE IF \E i \in 1..Len(servicesData) :
               servicesData[i].name = newService.name /\ servicesData[i].isActive
    THEN /\ response' = [op |-> "createService", status |-> 400]
         /\ UNCHANGED servicesData
    ELSE /\ servicesData' = Append(servicesData,
                                   NewService(servicesData, newService, now))
         /\ response' = [op |-> "createService", status |-> 201]

\* PUT /api/services/[id] : the three validations and the name check
ServicePutValid(store, id, updatedData) ==
    /\ ~(HasText(updatedData, "name") /\ Trim(updatedData.name) = "")
    /\ ~(HasNumber(updatedData, "duration") /\ updatedData.duration <= 0)
    /\ ~(HasNumber(updatedData, "price") /\ updatedData.price < 0)
    /\ ~(/\ HasText(updatedData, "name")
         /\ \E i \in 1..Len(store) : /\ store[i].id # id
                                     /\ store[i].name = Trim(updatedData.name)
                                     /\ store[i].isActive)

\* updatedData.f?.trim() || existingService.f
TrimmedOr(updatedData, f, existing) ==
    IF f \in DOMAIN updatedData /\ Trim(updatedData[f]) # ""
    THEN Trim(updatedData[f]) ELSE existing

\* PUT /api/services/[id] : updatedService
MergeService(existingService, updatedData, id, now) ==
    [ id        |-> id,
      name      |-> TrimmedOr(updatedData, "name", existingService.name),
      category  |-> TrimmedOr(updatedData, "category", existingService.category),
      updatedAt |-> now ] @@ updatedData @@ existingService

\* PUT /api/services/[id]
ServicePUT(id, updatedData, now) ==
    LET serviceIndex == FindIndex(servicesData, id) IN
    IF serviceIndex = 0
    THEN /\ response' = [op |-> "updateService", id |-> id, status |-> 404]
         /\ UNCHANGED servicesData
    ELSE IF ~ServicePutValid(servicesData, id, updatedData)
    THEN /\ response' = [op |-> "updateService", id |-> id, status |-> 400]
         /\ UNCHANGED servicesData
    ELSE /\ servicesData' = [servicesData EXCEPT ![serviceIndex] =
                                MergeService(servicesData[serviceIndex],
                                             updatedData, id, now)]
         /\ response' = [op |-> "updateService", id |-> id, status |-> 200]

\* as Deactivated, flipping isActive
Deactivated_Toggle(service, now) ==
    [service EXCEPT !.isActive = ~service.isActive, !.updatedAt = now]

\* DELETE /api/services/[id] : service.isActive = false; service.updatedAt = ...
Deactivated(service, now) == [service EXCEPT !.isActive = FALSE, !.updatedAt = now]

\* DELETE /api/services/[id]
ServiceDELETE(id, now) ==
    LET serviceIndex == FindIndex(servicesData, id) IN
    IF serviceIndex = 0
    THEN /\ response' = [op |-> "deactivateService", id |-> id, status |-> 404]
         /\ UNCHANGED servicesData
    ELSE /\ servicesData' = [servicesData EXCEPT ![serviceIndex] =
                                Deactivated(servicesData[serviceIndex], now)]
         /\ response' = [op |-> "deactivateService", id |-> id, status |-> 200,
                         body |-> Deactivated(servicesData[serviceIndex], now)]

\* GET /api/services/[id] : the answer over a store
GetService(store, id) ==
    LET serviceIndex == FindIndex(store, id) IN
    IF serviceIndex = 0
    THEN [op |-> "getService", id |-> id, status |-> 404]
    ELSE [op |-> "getService", id |-> id, status |-> 200, body |-> store[serviceIndex]]

\* GET /api/services/[id]
ServiceGET(id) ==
    /\ response' = GetService(servicesData, id)
    /\ UNCHANGED servicesData

\* the names of the services in the order of localeCompare
ServiceNameOrder == <<"color", "cut", "perm", "spa">>

\* the isActive values of the query string, "null" for an absent parameter
IsActiveParameters == {"null", "true", "false", "all"}

\* GET /api/services?isActive=... without search and category: the filter on
\* isActive === (isActive === 'true') and the sort by name
ListServices(store, isActive) ==
    LET filteredServices ==
            IF isActive # "null"
            THEN SelectSeq(store, LAMBDA service :
                              service.isActive = (isActive = "true"))
            ELSE store
        keys == [i \in 1..Len(filteredServices) |->
                    0 - (CHOOSE r \in 1..Len(ServiceNameOrder) :
                            ServiceNameOrder[r] = filteredServices[i].name)]
    IN StableSortDesc(filteredServices, keys)

\* GET /api/services?isActive=...
ServicesGET(isActive) ==
    /\ response' = [op |-> "listServices", isActive |-> isActive, status |-> 200,
                    body |-> ListServices(servicesData, isActive)]
    /\ UNCHANGED servicesData

(***************************************************************************)
(* Specifications of the services catalog                                  *)
(***************************************************************************)
\* services stored at once
MaxServices == 3

\* instants at which requests arrive
Stamps == {1, 2}

\* bodies of POST /api/services: a new name, the name of a default service,
\* the same with a leading blank, a zero and a negative duration, a negative
\* price, and no category
ServiceBodies ==
    { [name |-> "perm", duration |-> 120, price |-> 12000, category |-> "perm"],
      [name |-> "cut", duration |-> 30, price |-> 3000, category |-> "basic"],
      [name |-> " cut", duration |-> 30, price |-> 3000, category |-> "basic"],
      [name |-> "perm", duration |-> 0, price |-> 12000, category |-> "perm"],
      [name |-> "perm", duration |-> -5, price |-> 12000, category |-> "perm"],
      [name |-> "perm", duration |-> 120, price |-> -100, category |-> "perm"],
      [name |-> "perm", duration |-> 120, price |-> 12000] }

\* patches of PUT /api/services/[id]: a reactivation, a name, a blank name,
\* a zero and a negative duration, a negative price
ServicePatches ==
    { [isActive |-> TRUE],
      [name |-> "cut"],
      [name |-> " "],
      [duration |-> 0],
      [duration |-> -5],
      [price |-> -100] }

CatalogIds == 1..MaxServices

CreateService ==
    /\ Len(servicesData) < MaxServices
    /\ \E body \in ServiceBodies, now \in Stamps : ServicesPOST(body, now)
    /\ UNCHANGED <<otherVars, appointments, editPage, formVars, analysis, customers>>

UpdateService ==
    /\ \E id \in CatalogIds, patch \in ServicePatches, now \in Stamps :
          ServicePUT(id, patch, now)
    /\ UNCHANGED <<otherVars, appointments, editPage, formVars, analysis, customers>>

DeactivateService ==
    /\ \E id \in CatalogIds, now \in Stamps : ServiceDELETE(id, now)
    /\ UNCHANGED <<otherVars, appointments, editPage, formVars, analysis, customers>>

ReadService ==
    /\ \E id \in CatalogIds : ServiceGET(id)
    /\ UNCHANGED <<otherVars, appointments, editPage, formVars, analysis, customers>>

ReadServices ==
    /\ \E isActive \in IsActiveParameters : ServicesGET(isActive)
    /\ UNCHANGED <<otherVars, appointments, editPage, formVars, analysis, customers>>

CatalogNext ==
    \/ CreateService
    \/ UpdateService
    \/ DeactivateService
    \/ ReadService
    \/ ReadServices

SpecCatalog == ApptInit /\ [][CatalogNext]_vars

\* a new service takes the name of a default service
ReuseName ==
    /\ Len(servicesData) < MaxServices
    /\ \E now \in Stamps :
          ServicesPOST([name |-> "cut", duration |-> 30, price |-> 3000,
                        category |-> "basic"], now)
    /\ UNCHANGED <<otherVars, appointments, editPage, formVars, analysis, customers>>

\* a service is switched on again
ReactivateService ==
    /\ \E id \in CatalogIds, now \in Stamps : ServicePUT(id, [isActive |-> TRUE], now)
    /\ UNCHANGED <<otherVars, appointments, editPage, formVars, analysis, customers>>

DeactivationNext ==
    \/ DeactivateService
    \/ ReactivateService
    \/ ReuseName
    \/ ReadService
    \/ ReadServices

SpecDeactivation == ApptInit /\ [][DeactivationNext]_vars

(***************************************************************************)
(* Claims about the services catalog                                       *)
(***************************************************************************)
\* the stored service with an id, in a store that holds it
ServiceById(store, id) == store[FindIndex(store, id)]

\* C15: a deactivation (DELETE /api/services/[id]) that finds the service
\* removes nothing from storage: afterwards every service is stored as
\* before except that the deactivated one has isActive = false and a new
\* updatedAt; getService(id) still returns it, listServices with
\* isActive=true leaves it out and listServices with isActive='all' holds
\* it; when it was inactive already nothing but updatedAt changes.  No
\* catalog operation ever removes a stored service.
C15_DeactivationKeepsService ==
    [][ /\ \A i \in 1..Len(servicesData) :
              \E j \in 1..Len(servicesData') : servicesData'[j].id = servicesData[i].id
        /\ (response'.op = "deactivateService" /\ response'.status = 200) =>
             LET id == response'.id
                 before == ServiceById(servicesData, id)
                 after == ServiceById(servicesData', id)
                 listedTrue == ListServices(servicesData', "true")
                 listedAll == ListServices(servicesData', "all")
             IN /\ Len(servicesData') = Len(servicesData)
                /\ \A i \in 1..Len(servicesData) :
                      servicesData[i].id # id => servicesData'[i] = servicesData[i]
                /\ after.isActive = FALSE
                /\ [after EXCEPT !.isActive = before.isActive,
                                 !.updatedAt = before.updatedAt] = before
                /\ GetService(servicesData', id).status = 200
                /\ GetService(servicesData', id).body = after
                /\ \A k \in 1..Len(listedTrue) : listedTrue[k].id # id
                /\ \E k \in 1..Len(listedAll) : listedAll[k] = after
                /\ before.isActive = FALSE =>
                      servicesData' = [servicesData EXCEPT
                          ![FindIndex(servicesData, id)].updatedAt = after.updatedAt]
      ]_vars

\* service 1 is stored inactive, last deactivated at instant 2, while a new
\* active service created at instant 1 reuses its name
C15_Witness ==
    /\ response.op = "deactivateService"
    /\ response.status = 200
    /\ response.id = 1
    /\ response.body.updatedAt = 2
    /\ ServiceById(servicesData, 1).isActive = FALSE
    /\ Len(servicesData) = 3
    /\ servicesData[3].name = servicesData[1].name
    /\ servicesData[3].updatedAt = 1
    /\ servicesData[3].isActive

\* C16: no two stored services with isActive = true have the same name.
C16_ActiveNamesUnique ==
    \A i, j \in 1..Len(servicesData) :
        (i # j /\ servicesData[i].isActive /\ servicesData[j].isActive)
            => servicesData[i].name # servicesData[j].name

\* C17: every stored service has duration > 0 and price >= 0.
C17_PositiveDurationAndPrice ==
    \A i \in 1..Len(servicesData) :
        servicesData[i].duration > 0 /\ servicesData[i].price >= 0

(***************************************************************************)
(* Specification of the ids of the three collections                       *)
(***************************************************************************)
\* appointments and customers stored at once
MaxRecords == 2

\* ids a request can name: one more than can be stored at once, since a
\* deletion followed by a creation moves the ids up
RecordIds == 1..(MaxRecords + 1)

\* the one instant of the requests to the services routes
IdsStamps == {1}

IdsCreateAppointment ==
    /\ Len(appointments) < MaxRecords
    /\ MaxId(appointments) <= MaxRecords
    /\ \E body \in VisitBodies : body.clientId = 1 /\ POST(body)
    /\ UNCHANGED <<otherVars, editPage, formVars, analysis, officeVars>>

\* an update whose body carries the id of another record
IdsUpdateAppointment ==
    /\ \E id \in RecordIds, other \in RecordIds : PUT(id, [id |-> other])
    /\ UNCHANGED <<otherVars, editPage, formVars, analysis, officeVars>>

IdsDeleteAppointment ==
    /\ \E id \in RecordIds : DELETE(id)
    /\ UNCHANGED <<otherVars, editPage, formVars, analysis, officeVars>>

IdsCreateCustomer ==
    /\ Len(customers) < MaxRecords
    /\ MaxId(customers) <= MaxRecords
    /\ \E body \in CustomerBodies : CustomersPOST(body)
    /\ UNCHANGED <<otherVars, appointments, editPage, formVars, analysis, servicesData>>

IdsUpdateCustomer ==
    /\ \E id \in RecordIds, other \in RecordIds : CustomerPUT(id, [id |-> other])
    /\ UNCHANGED <<otherVars, appointments, editPage, formVars, analysis, servicesData>>

IdsDeleteCustomer ==
    /\ \E id \in RecordIds : CustomerDELETE(id)
    /\ UNCHANGED <<otherVars, appointments, editPage, formVars, analysis, servicesData>>

IdsCreateService ==
    /\ Len(servicesData) < MaxServices
    /\ \E body \in ServiceBodies, now \in IdsStamps : ServicesPOST(body, now)
    /\ UNCHANGED <<otherVars, appointments, editPage, formVars, analysis, customers>>

IdsUpdateService ==
    /\ \E id \in CatalogIds, other \in CatalogIds, now \in IdsStamps :
          ServicePUT(id, [id |-> other], now)
    /\ UNCHANGED <<otherVars, appointments, editPage, formVars, analysis, customers>>

IdsNext ==
    \/ IdsCreateAppointment
    \/ IdsUpdateAppointment
    \/ IdsDeleteAppointment
    \/ IdsCreateCustomer
    \/ IdsUpdateCustomer
    \/ IdsDeleteCustomer
    \/ IdsCreateService
    \/ IdsUpdateService

SpecIds == ApptInit /\ [][IdsNext]_vars

(***************************************************************************)
(* Claim about the ids                                                     *)
(***************************************************************************)
\* the ids of a collection are pairwise distinct
IdsDistinct(store) ==
    \A i, j \in 1..Len(store) : i # j => store[i].id # store[j].id

\* a step from collection before to collection after either appends one
\* record whose id is the greatest id of before (0 if none) plus one, or
\* keeps the number of records and the id at every position, or removes
\* records
IdsStep(before, after) ==
    /\ Len(after) > Len(before) =>
          /\ Len(after) = Len(before) + 1
          /\ SubSeq(after, 1, Len(before)) = before
          /\ \A i \in 1..Len(before) : before[i].id < after[Len(after)].id
          /\ \/ after[Len(after)].id = 1 /\ before = <<>>
             \/ \E i \in 1..Len(before) : before[i].id + 1 = after[Len(after)].id
    /\ Len(after) = Len(before) =>
          \A i \in 1..Len(before) : after[i].id = before[i].id

\* C19: in each of the collections appointments, customers and services a
\* created record gets the greatest stored id (0 if none) plus one, an
\* update leaves the id of every record as it was, even when its body
\* carries another id, and the stored ids are pairwise distinct.
C19_IdsMaxPlusOne ==
    /\ [](IdsDistinct(appointments) /\ IdsDistinct(customers)
            /\ IdsDistinct(servicesData))
    /\ [][ /\ IdsStep(appointments, appointments')
           /\ IdsStep(customers, customers')
           /\ IdsStep(servicesData, servicesData') ]_vars

\* after deletions and creations the appointments have the ids 2 and 3 and
\* the customers too, and a third service was created
C19_Witness ==
    /\ Len(appointments) = 2
    /\ appointments[1].id = 2
    /\ appointments[2].id = 3
    /\ Len(customers) = 2
    /\ customers[1].id = 2
    /\ customers[2].id = 3
    /\ Len(servicesData) = 3
    /\ servicesData[3].id = 3
    /\ response.op = "updateCustomer"
    /\ response.status = 200

(***************************************************************************)
(* Round trip of a booking through the appointments routes                 *)
(***************************************************************************)
\* POST /api/appointments : the answer to a body over a store
PostResponse(store, body) ==
    IF PostValid(body)
    THEN [status |-> 201, body |-> NewAppointment(store, body)]
    ELSE [status |-> 400]

\* GET /api/appointments/[id] : the answer over a store
GetAppointment(store, id) ==
    LET i == FindIndex(store, id) IN
    IF i = 0 THEN [status |-> 404] ELSE [status |-> 200, body |-> store[i]]

\* the step is a submission of the booking form
IsSubmit == formData.step = 3 /\ formData'.step = 0

IdsOf(svs) == [k \in 1..Len(svs) |-> svs[k].id]

\* C21: when the edit page saves a scheduled appointment that it loaded as
\* it is stored (its totals being the sums over its services), with the
\* service selection as loaded (only date, time or note
\* may have been changed), the stored services keep their durations and
\* prices, the values adjusted at booking time included, and totalPrice and
\* totalDuration stay as they were.
C21_SnapshotsSurviveEdit ==
    [][ LET i == FindIndex(appointments, editPage.appointment.id) IN
        (/\ editPage.appointment # NoAppointment
         /\ editPage' = EditPageInit
         /\ i # 0
         /\ editPage.appointment = appointments[i]
         /\ appointments[i].status = "scheduled"
         /\ appointments[i].totalPrice = SumPrice(appointments[i].services)
         /\ appointments[i].totalDuration = SumDuration(appointments[i].services)
         /\ editPage.formData.selectedServiceIds = IdsOf(appointments[i].services))
           => /\ appointments'[i].services = appointments[i].services
              /\ appointments'[i].totalPrice = appointments[i].totalPrice
              /\ appointments'[i].totalDuration = appointments[i].totalDuration ]_vars

(***************************************************************************)
(* The route handlers over the data files                                  *)
(*                                                                         *)
(* Every handler reads its whole file (await read...), works on the copy   *)
(* and, when it mutates, writes the whole file back (await write...).      *)
(* A request is received, then fetches (the read and the code up to the    *)
(* write), then stores (the write and the answer).  The variables          *)
(* appointments, customers and servicesData hold what the files contain;   *)
(* files tells whether a file can be read: "present", "missing" or         *)
(* "unparsable" (fs.readFile or JSON.parse throws).                        *)
(***************************************************************************)
Conditions == {"present", "missing", "unparsable"}

\* the collection a file holds
StoredIn(collection) ==
    CASE collection = "appointments" -> appointments
      [] collection = "customers"    -> customers
      [] collection = "services"     -> servicesData

\* readAppointments, readCustomers and the two readServices: the catch
\* block returns an empty collection, the one of app/api/services/route.ts
\* (list and create) the default services
ReadData(collection, op) ==
    IF files[collection] = "present" THEN StoredIn(collection)
    ELSE IF collection = "services" /\ op \in {"list", "create"} THEN DefaultServices
    ELSE <<>>

\* a collection without its i-th record: splice(i, 1)
Splice(data, i) == SubSeq(data, 1, i - 1) \o SubSeq(data, i + 1, Len(data))

\* what a handler decides after its read: an answer without a write, or the
\* collection to write and the answer that follows the write
Answer(status) == [status |-> status, write |-> FALSE]

AnswerWith(status, body) == [status |-> status, write |-> FALSE, body |-> body]

WriteThenAnswer(status, next, body) ==
    [status |-> status, write |-> TRUE, next |-> next, body |-> body]

\* the handlers of app/api/appointments and app/api/appointments/[id]
AppointmentsPlan(req, data) ==
    LET i == FindIndex(data, req.id) IN
    CASE req.op = "list"   -> AnswerWith(200, data)
      [] req.op = "get"    -> IF i = 0 THEN Answer(404) ELSE AnswerWith(200, data[i])
      [] req.op = "create" ->
            IF ~PostValid(req.body) THEN Answer(400)
            ELSE WriteThenAnswer(201, Append(data, NewAppointment(data, req.body)),
                                 NewAppointment(data, req.body))
      [] req.op = "update" ->
            IF i = 0 THEN Answer(404)
            ELSE WriteThenAnswer(200, PutResult(data, req.id, req.body),
                                 MergeAppointment(data[i], req.body, req.id))
      [] req.op = "delete" ->
            IF i = 0 THEN Answer(404)
            ELSE WriteThenAnswer(200, Splice(data, i), [success |-> TRUE])

\* the handlers of app/api/customers and app/api/customers/[id]
CustomersPlan(req, data) ==
    LET i == FindIndex(data, req.id) IN
    CASE req.op = "list"   -> AnswerWith(200, ListCustomers(data, "name", "asc"))
      [] req.op = "get"    ->
            IF i = 0 THEN Answer(404)
            ELSE AnswerWith(200, CustomerWithStats(data[i],
                                                   ReadData("appointments", "get")))
      [] req.op = "create" ->
            IF ~CustomerPostValid(req.body) THEN Answer(400)
            ELSE IF \E k \in 1..Len(data) : data[k].phone = req.body.phone
            THEN Answer(400)
            ELSE WriteThenAnswer(201, Append(data, NewCustomer(data, req.body)),
                                 NewCustomer(data, req.body))
      [] req.op = "update" ->
            IF i = 0 THEN Answer(404)
            ELSE WriteThenAnswer(200,
                    [data EXCEPT ![i] = MergeCustomer(data[i], req.body, req.id)],
                    MergeCustomer(data[i], req.body, req.id))
      [] req.op = "delete" ->
            IF i = 0 THEN Answer(404)
            ELSE WriteThenAnswer(200, Splice(data, i), [success |-> TRUE])

\* the handlers of app/api/services and app/api/services/[id]
ServicesPlan(req, data) ==
    LET i == FindIndex(data, req.id) IN
    CASE req.op = "list"   -> AnswerWith(200, ListServices(data, "null"))
      [] req.op = "get"    -> IF i = 0 THEN Answer(404) ELSE AnswerWith(200, data[i])
      [] req.op = "create" ->
            IF ~ServicePostValid(req.body) THEN Answer(400)
            ELSE IF \E k \in 1..Len(data) :
                       data[k].name = req.body.name /\ data[k].isActive
            THEN Answer(400)
            ELSE WriteThenAnswer(201, Append(data, NewService(data, req.body, req.now)),
                                 NewService(data, req.body, req.now))
      [] req.op = "update" ->
            IF i = 0 THEN Answer(404)
            ELSE IF ~ServicePutValid(data, req.id, req.body) THEN Answer(400)
            ELSE WriteThenAnswer(200,
                    [data EXCEPT ![i] = MergeService(data[i], req.body, req.id, req.now)],
                    MergeService(data[i], req.body, req.id, req.now))
      [] req.op = "delete" ->
            IF i = 0 THEN Answer(404)
            ELSE WriteThenAnswer(200,
                    [data EXCEPT ![i] = Deactivated(data[i], req.now)],
                    Deactivated(data[i], req.now))

PlanOf(req, data) ==
    CASE req.collection = "appointments" -> AppointmentsPlan(req, data)
      [] req.collection = "customers"    -> CustomersPlan(req, data)
      [] req.collection = "services"     -> ServicesPlan(req, data)

\* a request arrives
Receive(r, req) ==
    /\ inFlight[r] = NoRequest
    /\ inFlight' = [inFlight EXCEPT ![r] = [pc |-> "received", req |-> req]]
    /\ UNCHANGED <<appointments, customers, servicesData, files>>

\* the handler up to its write: the read and the decision.  cond and read
\* record what the handler met, for the properties below
Fetch(r) ==
    /\ inFlight[r].pc = "received"
    /\ LET req  == inFlight[r].req
           data == ReadData(req.collection, req.op)
           plan == PlanOf(req, data)
       IN inFlight' = [inFlight EXCEPT ![r] =
                          [pc   |-> IF plan.write THEN "writing" ELSE "answered",
                           req  |-> req,
                           cond |-> files[req.collection],
                           read |-> data,
                           plan |-> plan,
                           status |-> IF plan.write THEN 0 ELSE plan.status]]
    /\ UNCHANGED <<appointments, customers, servicesData, files>>

\* as DataToWrite, with the change applied to the file as it is at the write
DataToWrite_Reread(r) ==
    LET req == inFlight[r].req
        plan == PlanOf(req, ReadData(req.collection, req.op))
    IN IF plan.write THEN plan.next ELSE StoredIn(req.collection)

\* the data object the handler passes to write...: the copy it read, changed
DataToWrite(r) == inFlight[r].plan.next

\* await write...(data) succeeds: the file holds the handler's collection
StoreDone(r) ==
    /\ inFlight[r].pc = "writing"
    /\ LET collection == inFlight[r].req.collection
           next == DataToWrite(r)
       IN /\ appointments' = IF collection = "appointments" THEN next ELSE appointments
          /\ customers'    = IF collection = "customers" THEN next ELSE customers
          /\ servicesData' = IF collection = "services" THEN next ELSE servicesData
          /\ files' = [files EXCEPT ![collection] = "present"]
    /\ inFlight' = [inFlight EXCEPT ![r].pc = "answered",
                                    ![r].status = inFlight[r].plan.status]

\* await write...(data) throws: the catch block of the handler answers 500
StoreFails(r) ==
    /\ inFlight[r].pc = "writing"
    /\ inFlight' = [inFlight EXCEPT ![r].pc = "answered", ![r].status = 500]
    /\ UNCHANGED <<appointments, customers, servicesData, files>>

\* the answer was delivered
Close(r) ==
    /\ inFlight[r].pc = "answered"
    /\ inFlight' = [inFlight EXCEPT ![r] = NoRequest]
    /\ UNCHANGED <<appointments, customers, servicesData, files>>

(***************************************************************************)
(* Specification of the handlers over missing and unparsable files         *)
(***************************************************************************)
\* what a file that exists holds at the start
SeedAppointments ==
    <<NewAppointment(<<>>, [clientName |-> "tanaka", clientId |-> 1, start |-> 600,
                            end |-> 640, services |-> <<Cut>>, totalPrice |-> 4500,
                            totalDuration |-> 40, note |-> ""])>>

SeedCustomers == <<NewCustomer(<<>>, [name |-> "tanaka", phone |-> "090"])>>

SeedServices ==
    <<NewService(<<>>, [name |-> "perm", duration |-> 120, price |-> 12000,
                        category |-> "perm"], 0)>>

\* one request of each kind to each collection
StorageRequests ==
    { [collection |-> c, op |-> "list"] : c \in Collections }
    \cup { [collection |-> c, op |-> "get", id |-> 1] : c \in Collections }
    \cup { [collection |-> c, op |-> "delete", id |-> 1, now |-> 1] : c \in Collections }
    \cup { [collection |-> "appointments", op |-> "create",
            body |-> [clientName |-> "sato", clientId |-> 2, start |-> 700,
                      end |-> 740, services |-> <<Cut>>, totalPrice |-> 4500,
                      totalDuration |-> 40, note |-> ""]],
           [collection |-> "customers", op |-> "create",
            body |-> [name |-> "sato", phone |-> "080"]],
           [collection |-> "services", op |-> "create", now |-> 1,
            body |-> [name |-> "spa", duration |-> 30, price |-> 3000,
                      category |-> "care"]],
           [collection |-> "appointments", op |-> "update", id |-> 1,
            body |-> [note |-> "memo"]],
           [collection |-> "customers", op |-> "update", id |-> 1,
            body |-> [phone |-> "070"]],
           [collection |-> "services", op |-> "update", id |-> 1, now |-> 1,
            body |-> [price |-> 9000]] }

StorageInit ==
    /\ files \in [Collections -> Conditions]
    /\ appointments = IF files["appointments"] = "missing" THEN <<>> ELSE SeedAppointments
    /\ customers = IF files["customers"] = "missing" THEN <<>> ELSE SeedCustomers
    /\ servicesData = IF files["services"] = "missing" THEN <<>> ELSE SeedServices
    /\ inFlight = [r \in Clients |-> NoRequest]
    /\ PagesIdle
    /\ editPage = EditPageInit
    /\ IdleForm
    /\ analysis = NoAnalysis
    /\ response = NoResponse

StorageReceive ==
    /\ \E req \in StorageRequests :
          /\ req.op = "create" => Len(StoredIn(req.collection)) < MaxRecords
          /\ Receive(1, req)
    /\ UNCHANGED <<editPage, formVars, analysis, response, bulkModal, detailPage,
                   calendarView, settingsPanel>>

StorageFetch == Fetch(1) /\ UNCHANGED <<editPage, formVars, analysis, response, bulkModal, detailPage,
                   calendarView, settingsPanel>>

StorageStoreDone == StoreDone(1) /\ UNCHANGED <<editPage, formVars, analysis, response, bulkModal, detailPage,
                   calendarView, settingsPanel>>

StorageStoreFails == StoreFails(1) /\ UNCHANGED <<editPage, formVars, analysis, response, bulkModal, detailPage,
                   calendarView, settingsPanel>>

StorageClose == Close(1) /\ UNCHANGED <<editPage, formVars, analysis, response, bulkModal, detailPage,
                   calendarView, settingsPanel>>

StorageNext ==
    \/ StorageReceive
    \/ StorageFetch
    \/ StorageStoreDone
    \/ StorageStoreFails
    \/ StorageClose

SpecStorage == StorageInit /\ [][StorageNext]_vars

\* C22: a handler that meets a missing file treats the collection as empty:
\* list answers an empty array, get, update and delete answer 404, and create
\* plans to write a collection that holds only the new record, with id 1.
C22_MissingStoreIsEmpty ==
    \A r \in Clients :
        (inFlight[r].pc \in {"writing", "answered"} /\ inFlight[r].cond = "missing")
            => LET op == inFlight[r].req.op IN
               /\ op = "list" => inFlight[r].plan.body = <<>>
               /\ op \in {"get", "update", "delete"} => inFlight[r].plan.status = 404
               /\ op = "create" => /\ inFlight[r].plan.write
                                   /\ Len(inFlight[r].plan.next) = 1
                                   /\ inFlight[r].plan.next[1].id = 1

\* the requests that change a collection
Mutations == {"create", "update", "delete"}

\* C23: a create, update or delete that meets a file it cannot parse plans no
\* write and answers with the storage error (500); no step replaces what an
\* unparsable file holds; and a write that fails is answered with 500 and
\* leaves every file as it was.
C23_UnparsableStoreIsKept ==
    /\ [](\A r \in Clients :
            (/\ inFlight[r].pc \in {"writing", "answered"}
             /\ inFlight[r].cond = "unparsable"
             /\ inFlight[r].req.op \in Mutations)
                => ~inFlight[r].plan.write /\ inFlight[r].status = 500)
    /\ [][ /\ \A c \in Collections :
                files[c] = "unparsable" => StoredIn(c)' = StoredIn(c)
           /\ \A r \in Clients :
                (/\ inFlight[r].pc = "writing"
                 /\ inFlight'[r].pc = "answered"
                 /\ inFlight'[r].status = 500)
                    => UNCHANGED <<appointments, customers, servicesData, files>> ]_vars

(***************************************************************************)
(* Specification of two clients that write the appointments file           *)
(***************************************************************************)
RaceRequests ==
    { [collection |-> "appointments", op |-> "create",
       body |-> [clientName |-> name, clientId |-> 2, start |-> 700, end |-> 740,
                 services |-> <<Cut>>, totalPrice |-> 4500, totalDuration |-> 40,
                 note |-> ""]] : name \in {"sato", "suzuki"} }
    \cup { [collection |-> "appointments", op |-> "update", id |-> 1,
            body |-> [note |-> "memo"]] }
    \cup { [collection |-> "appointments", op |-> "delete", id |-> 1] }

RaceInit ==
    /\ appointments = SeedAppointments
    /\ editPage = EditPageInit
    /\ IdleForm
    /\ OtherIdle
    /\ analysis = NoAnalysis
    /\ OfficeIdle

RaceReceive ==
    /\ \E r \in Clients, req \in RaceRequests :
          /\ req.op = "create" => Len(appointments) < MaxRecords
          /\ Receive(r, req)
    /\ UNCHANGED <<editPage, formVars, analysis, response, bulkModal, detailPage,
                   calendarView, settingsPanel>>

RaceFetch ==
    /\ \E r \in Clients : Fetch(r)
    /\ UNCHANGED <<editPage, formVars, analysis, response, bulkModal, detailPage,
                   calendarView, settingsPanel>>

RaceStoreDone ==
    /\ \E r \in Clients : StoreDone(r)
    /\ UNCHANGED <<editPage, formVars, analysis, response, bulkModal, detailPage,
                   calendarView, settingsPanel>>

RaceStoreFails ==
    /\ \E r \in Clients : StoreFails(r)
    /\ UNCHANGED <<editPage, formVars, analysis, response, bulkModal, detailPage,
                   calendarView, settingsPanel>>

RaceClose ==
    /\ \E r \in Clients : Close(r)
    /\ UNCHANGED <<editPage, formVars, analysis, response, bulkModal, detailPage,
                   calendarView, settingsPanel>>

RaceNext ==
    \/ RaceReceive
    \/ RaceFetch
    \/ RaceStoreDone
    \/ RaceStoreFails
    \/ RaceClose

SpecRace == RaceInit /\ [][RaceNext]_vars

\* request q changed the file: it is answered with 200 or 201
HasStored(q) ==
    /\ inFlight[q].pc = "answered"
    /\ inFlight[q].req.op \in Mutations
    /\ inFlight[q].status \in {200, 201}

\* the change of request q is not in the collection
Lost(q, collection) ==
    IF inFlight[q].req.op = "delete"
    THEN \E k \in 1..Len(collection) : collection[k].id = inFlight[q].req.id
    ELSE inFlight[q].plan.body \notin Range(collection)

\* C24: when a request stores its collection after another request, which
\* had read the same collection and asked for another change, stored its
\* own, the file holds what the later request made of its read and the
\* change of the earlier one is lost; two such creates are both answered 201
\* with the same id and the file holds one record more than was read.
C24_LostUpdate ==
    [][ \A r, q \in Clients :
          (/\ r # q
           /\ inFlight[r].pc = "writing"
           /\ inFlight'[r].pc = "answered"
           /\ inFlight'[r].status # 500
           /\ HasStored(q)
           /\ inFlight[q].plan.next # inFlight[q].read
           /\ appointments = inFlight[q].plan.next
           /\ inFlight[q].read = inFlight[r].read
           /\ inFlight[q].req # inFlight[r].req)
              => /\ appointments' = inFlight[r].plan.next
                 /\ Lost(q, appointments')
                 /\ (inFlight[r].req.op = "create" /\ inFlight[q].req.op = "create")
                       => /\ inFlight'[r].status = 201
                          /\ inFlight[q].status = 201
                          /\ inFlight[r].plan.body.id = inFlight[q].plan.body.id
                          /\ Len(appointments') = Len(inFlight[r].read) + 1 ]_vars

\* two creates read the same collection, both are answered 201 with the same
\* id, and the file holds only the appointment of one of them
C24_Witness ==
    \E r, q \in Clients :
        /\ r # q
        /\ HasStored(r) /\ HasStored(q)
        /\ inFlight[r].req.op = "create" /\ inFlight[q].req.op = "create"
        /\ inFlight[r].read = inFlight[q].read
        /\ inFlight[r].status = 201 /\ inFlight[q].status = 201
        /\ inFlight[r].plan.body.id = inFlight[q].plan.body.id
        /\ inFlight[r].plan.body \in Range(appointments)
        /\ inFlight[q].plan.body \notin Range(appointments)
        /\ Len(appointments) = Len(inFlight[r].read) + 1

(***************************************************************************)
(* components/BulkAdjustmentModal.tsx : the preview and Apply              *)
(***************************************************************************)
\* reduce((sum, s) => sum + s[f], 0)
RECURSIVE SumField(_, _)
SumField(s, f) == IF s = <<>> THEN 0 ELSE s[1][f] + SumField(Tail(s), f)

\* calculatePreview : the duration of one service
PreviewDuration(service, timeAdjustment) ==
    Max(5, service.baseDuration + timeAdjustment)

\* calculatePreview
calculatePreview(selectedServices, adjustmentType, priceAdjustment, timeAdjustment) ==
    LET price == [i \in 1..Len(selectedServices) |->
                     [v |-> BulkNewPrice(selectedServices[i], adjustmentType,
                                         priceAdjustment)]]
        duration == [i \in 1..Len(selectedServices) |->
                        [v |-> PreviewDuration(selectedServices[i], timeAdjustment)]]
    IN [ originalTotal    |-> SumField(selectedServices, "basePrice"),
         originalDuration |-> SumField(selectedServices, "baseDuration"),
         newTotal         |-> SumField(price, "v"),
         newDuration      |-> SumField(duration, "v") ]

\* the dialog as rendered: props, state and the preview shown
Rendered(selectedServices, adjustmentType, priceAdjustment, timeAdjustment, reason) ==
    [ open             |-> TRUE,
      selectedServices |-> selectedServices,
      adjustmentType   |-> adjustmentType,
      priceAdjustment  |-> priceAdjustment,
      timeAdjustment   |-> timeAdjustment,
      reason           |-> reason,
      preview          |-> calculatePreview(selectedServices, adjustmentType,
                                            priceAdjustment, timeAdjustment) ]

\* the dialog is mounted: useState('percentage'), useState(0), useState(0),
\* useState('')
ModalMount(selectedServices) ==
    /\ ~bulkModal.open
    /\ bulkModal' = Rendered(selectedServices, "percentage", 0, 0, "")

\* handlePresetClick and the inputs of the dialog: a directive is entered
ModalEnter(d, reason) ==
    /\ bulkModal.open
    /\ bulkModal' = Rendered(bulkModal.selectedServices, d.type, d.price, d.time, reason)

\* handleApply: onBulkAdjustment(adjustedServices); onClose().  The closed
\* dialog keeps the preview it showed last and what it handed over
ModalApply ==
    /\ bulkModal.open
    /\ bulkModal' = [ open     |-> FALSE,
                      preview  |-> bulkModal.preview,
                      adjusted |-> BulkHandleApply(bulkModal.selectedServices,
                                                   bulkModal.adjustmentType,
                                                   bulkModal.priceAdjustment,
                                                   bulkModal.timeAdjustment,
                                                   bulkModal.reason) ]

\* services the dialog can be given: a service every catalog accepts has a
\* duration of at least 1 and a price of at least 0
ModalServices ==
    { NewAdjustable([id |-> 1, name |-> "cut", duration |-> 40, price |-> 4500]),
      NewAdjustable([id |-> 2, name |-> "color", duration |-> 5, price |-> 0]),
      NewAdjustable([id |-> 3, name |-> "blow", duration |-> 3, price |-> 2000]),
      NewAdjustable([id |-> 4, name |-> "spa", duration |-> 1, price |-> 5000]) }

ModalSelections ==
    { <<s>> : s \in ModalServices }
    \cup { <<p[1], p[2]>> : p \in { q \in ModalServices \X ModalServices :
                                        q[1].id < q[2].id } }

BulkModalInit ==
    /\ bulkModal = NoModal
    /\ detailPage = DetailPageInit
    /\ calendarView = CalendarViewInit
    /\ settingsPanel = NoPanel
    /\ files = [c \in Collections |-> "present"]
    /\ inFlight = [r \in Clients |-> NoRequest]
    /\ appointments = <<>>
    /\ editPage = EditPageInit
    /\ IdleForm
    /\ analysis = NoAnalysis
    /\ OfficeIdle

BulkModalMount ==
    /\ \E sel \in ModalSelections : ModalMount(sel)
    /\ UNCHANGED <<appointments, editPage, formVars, analysis, officeVars, files, inFlight,
                   detailPage, calendarView, settingsPanel>>

BulkModalEnter ==
    /\ \E d \in BulkDirectives, r \in TypedReasons : ModalEnter(d, r)
    /\ UNCHANGED <<appointments, editPage, formVars, analysis, officeVars, files, inFlight,
                   detailPage, calendarView, settingsPanel>>

BulkModalApply ==
    /\ ModalApply
    /\ UNCHANGED <<appointments, editPage, formVars, analysis, officeVars, files, inFlight,
                   detailPage, calendarView, settingsPanel>>

BulkModalNext ==
    \/ BulkModalMount
    \/ BulkModalEnter
    \/ BulkModalApply

SpecBulkModal == BulkModalInit /\ [][BulkModalNext]_vars

DetailFetchAppointment(id) ==
    LET answer == GetAppointment(appointments, id) IN
    /\ detailPage' = IF answer.status = 200
                     THEN [detailPage EXCEPT !.appointment = answer.body]
                     ELSE detailPage
    /\ UNCHANGED appointments

\* showConfirmation, behind the buttons shown for a scheduled appointment
showConfirmation(type) ==
    /\ detailPage.appointment # NoAppointment
    /\ detailPage.appointment.status = "scheduled"
    /\ detailPage' = [detailPage EXCEPT !.showConfirmDialog = type]
    /\ UNCHANGED appointments

\* the dialog's other button: setShowConfirmDialog({ type: null, ... })
DetailDismiss ==
    /\ detailPage.showConfirmDialog # "null"
    /\ detailPage' = [detailPage EXCEPT !.showConfirmDialog = "null"]
    /\ UNCHANGED appointments

\* the body of the PUT: { ...appointment, status }
DetailBody(appointment, status) == [appointment EXCEPT !.status = status]

\* handleCompleteAppointment / handleCancelAppointment behind the dialog's
\* confirm button; an answer that is not ok leaves the page as it is
DetailConfirm ==
    /\ detailPage.showConfirmDialog # "null"
    /\ LET appointment == detailPage.appointment
           status == IF detailPage.showConfirmDialog = "complete"
                     THEN "completed" ELSE "cancelled"
           body == DetailBody(appointment, status)
           i == FindIndex(appointments, appointment.id)
       IN /\ PUT(appointment.id, body)
          /\ detailPage' =
                IF i = 0 THEN detailPage
                ELSE [appointment |-> MergeAppointment(appointments[i], body,
                                                       appointment.id),
                      showConfirmDialog |-> "null"]

(***************************************************************************)
(* Specification of the detail page next to other clients                  *)
(***************************************************************************)
\* what another client sends meanwhile: a new time, a note
Reschedules == {[start |-> 630, end |-> 670], [note |-> "memo"]}

DetailInit == ApptInit

DetailBook ==
    /\ Len(appointments) < MaxAppointments
    /\ \E body \in PostBodies : POST(body)
    /\ UNCHANGED <<editPage, formVars, analysis, officeVars, files, inFlight,
                   bulkModal, detailPage, calendarView, settingsPanel>>

DetailReschedule ==
    /\ \E id \in AppointmentIds, patch \in Reschedules : PUT(id, patch)
    /\ UNCHANGED <<editPage, formVars, analysis, officeVars, files, inFlight,
                   bulkModal, detailPage, calendarView, settingsPanel>>

DetailRemove ==
    /\ \E id \in AppointmentIds : DELETE(id)
    /\ UNCHANGED <<editPage, formVars, analysis, officeVars, files, inFlight,
                   bulkModal, detailPage, calendarView, settingsPanel>>

DetailLoad ==
    /\ \E id \in AppointmentIds : DetailFetchAppointment(id)
    /\ UNCHANGED <<editPage, formVars, analysis, officeVars, files, inFlight, bulkModal,
                   calendarView, settingsPanel>>

DetailAsk ==
    /\ \E type \in {"complete", "cancel"} : showConfirmation(type)
    /\ UNCHANGED <<editPage, formVars, analysis, officeVars, files, inFlight, bulkModal,
                   calendarView, settingsPanel>>

DetailClose ==
    /\ DetailDismiss
    /\ UNCHANGED <<editPage, formVars, analysis, officeVars, files, inFlight, bulkModal,
                   calendarView, settingsPanel>>

DetailExecute ==
    /\ DetailConfirm
    /\ UNCHANGED <<editPage, formVars, analysis, officeVars, files, inFlight, bulkModal,
                   calendarView, settingsPanel>>

DetailNext ==
    \/ DetailBook
    \/ DetailReschedule
    \/ DetailRemove
    \/ DetailLoad
    \/ DetailAsk
    \/ DetailClose
    \/ DetailExecute

SpecDetail == DetailInit /\ [][DetailNext]_vars

\* the step is a completion or cancellation confirmed on the detail page
\* and answered ok: the dialog closes and the page's status changes
IsDetailConfirm ==
    /\ detailPage.showConfirmDialog # "null"
    /\ detailPage'.showConfirmDialog = "null"
    /\ detailPage'.appointment.status # detailPage.appointment.status

\* C26: a completion or cancellation from the detail page changes only the
\* status of the appointment as it is stored when the request is handled
\* (updatedAt is not modelled): whatever another client stored since the
\* page was loaded is still there.
C26_StatusOnly ==
    [][ IsDetailConfirm =>
          LET i == FindIndex(appointments, detailPage.appointment.id) IN
          /\ i # 0
          /\ appointments' = [appointments EXCEPT
                                ![i].status = detailPage'.appointment.status] ]_vars

(***************************************************************************)
(* Claim about the history of a new customer                               *)
(***************************************************************************)
\* C27: when createCustomer stores a customer, what getCustomer computes for
\* it from the appointments stored at that moment is an empty history:
\* totalVisits 0, totalSpent 0 and no appointments, whatever was created,
\* completed and deleted before.
C27_NewCustomerHasNoHistory ==
    [][ (/\ response'.op = "createCustomer"
         /\ response'.status = 201
         /\ Len(customers') = Len(customers) + 1)
          => LET created == customers'[Len(customers')]
                 read == CustomerWithStats(created, appointments')
             IN /\ read.totalVisits = 0
                /\ read.totalSpent = 0
                /\ read.appointments = <<>> ]_vars

(***************************************************************************)
(* app/services/page.tsx : the list the services page asks for             *)
(***************************************************************************)
\* fetchServices: isActive: showInactive ? 'all' : 'true'
FetchServicesIsActive(showInactive) == IF showInactive THEN "all" ELSE "true"

\* the stored services that are active
ActiveServices(store) == SelectSeq(store, LAMBDA service : service.isActive)

\* C28: a list of the services asked with isActive 'all', as the services
\* page does when 'show inactive' is on, holds every stored service, active
\* or not; asked with 'true', as the page does otherwise, exactly the active
\* ones; asked without the parameter, every stored service.
C28_AllListsEveryService ==
    [][ (response' # response /\ response'.op = "listServices")
          => /\ response'.isActive = FetchServicesIsActive(TRUE)
                  => Range(response'.body) = Range(servicesData)
             /\ response'.isActive = FetchServicesIsActive(FALSE)
                  => Range(response'.body) = Range(ActiveServices(servicesData))
             /\ response'.isActive = "null"
                  => Range(response'.body) = Range(servicesData) ]_vars

(***************************************************************************)
(* components/CalendarView.tsx : the time slots                            *)
(*                                                                         *)
(* A time slot is given by its minute of the day: the code's timeSlot is   *)
(* that value in hours and slotTime = hour * 60 + minute is what it is     *)
(* compared with.                                                          *)
(***************************************************************************)
\* fetchAppointments: setAppointments(data) with the answer of the list
CalendarFetchAppointments ==
    /\ calendarView' = [calendarView EXCEPT !.appointments = appointments]
    /\ UNCHANGED appointments

\* isSlotBooked
isSlotBooked(date, slotTime) ==
    \E i \in 1..Len(calendarView.appointments) :
        LET appointment == calendarView.appointments[i] IN
        /\ DateOf(appointment.start) = date
        /\ slotTime >= TimeOf(appointment.start)
        /\ slotTime < TimeOf(appointment.end)

\* handleSlotClick: nothing on a booked slot, the booking form otherwise
handleSlotClick(date, slotTime) ==
    /\ calendarView' =
          [calendarView EXCEPT
              !.clicked = [date |-> date, slotTime |-> slotTime],
              !.route = IF isSlotBooked(date, slotTime)
                        THEN "/calendar" ELSE "/appointments/new"]
    /\ UNCHANGED appointments

(***************************************************************************)
(* Specification of the calendar's slots                                   *)
(***************************************************************************)
SlotDates == {0}

SlotTimes == {570, 600, 630, 660}

CalendarBook ==
    /\ Len(appointments) < MaxAppointments
    /\ \E body \in PostBodies : POST(body)
    /\ UNCHANGED <<editPage, formVars, analysis, officeVars, files, inFlight,
                   bulkModal, detailPage, calendarView, settingsPanel>>

CalendarSetStatus ==
    /\ \E id \in AppointmentIds, status \in Statuses : PUT(id, [status |-> status])
    /\ UNCHANGED <<editPage, formVars, analysis, officeVars, files, inFlight,
                   bulkModal, detailPage, calendarView, settingsPanel>>

CalendarRemove ==
    /\ \E id \in AppointmentIds : DELETE(id)
    /\ UNCHANGED <<editPage, formVars, analysis, officeVars, files, inFlight,
                   bulkModal, detailPage, calendarView, settingsPanel>>

CalendarLoad ==
    /\ CalendarFetchAppointments
    /\ UNCHANGED <<editPage, formVars, analysis, officeVars, files, inFlight,
                   bulkModal, detailPage, settingsPanel>>

CalendarClick ==
    /\ \E date \in SlotDates, slotTime \in SlotTimes : handleSlotClick(date, slotTime)
    /\ UNCHANGED <<editPage, formVars, analysis, officeVars, files, inFlight,
                   bulkModal, detailPage, settingsPanel>>

CalendarNext ==
    \/ CalendarBook
    \/ CalendarSetStatus
    \/ CalendarRemove
    \/ CalendarLoad
    \/ CalendarClick

SpecCalendar == ApptInit /\ [][CalendarNext]_vars

\* an appointment of the calendar that is not cancelled covers the slot
CoveredByLive(date, slotTime) ==
    \E i \in 1..Len(calendarView.appointments) :
        LET appointment == calendarView.appointments[i] IN
        /\ appointment.status # "cancelled"
        /\ DateOf(appointment.start) = date
        /\ slotTime >= TimeOf(appointment.start)
        /\ slotTime < TimeOf(appointment.end)

\* C29: a click on a slot is refused as booked only if an appointment whose
\* status is not 'cancelled' covers the slot; otherwise it opens the booking
\* form.
C29_BookedMeansLive ==
    [][ (calendarView'.clicked # NoClick /\ calendarView'.route = "/calendar"
         /\ calendarView'.appointments = calendarView.appointments)
          => CoveredByLive(calendarView'.clicked.date,
                           calendarView'.clicked.slotTime) ]_vars

(***************************************************************************)
(* components/CalendarSettingsPanel.tsx and the settings of CalendarView   *)
(*                                                                         *)
(* The panel's state starts as the object CalendarView holds               *)
(* (useState(currentSettings)).  handleSettingChange copies the top level  *)
(* only ({ ...prev }) and assigns a nested field in place, so the panel    *)
(* and the view share the timeRange and dayRange objects until the panel   *)
(* replaces them (applyPreset, handleReset).  sharesTimeRange and          *)
(* sharesDayRange tell whether the panel's nested object is the view's.    *)
(***************************************************************************)
\* the settings button: the panel is mounted with the view's settings
SettingsMount ==
    /\ ~settingsPanel.open
    /\ settingsPanel' = [ open            |-> TRUE,
                          settings        |-> calendarView.settings,
                          sharesTimeRange |-> TRUE,
                          sharesDayRange  |-> TRUE ]
    /\ UNCHANGED calendarView

\* handleSettingChange('timeRange.startHour' | 'timeRange.endHour', value)
ChangeTimeRange(field, value) ==
    /\ settingsPanel.open
    /\ settingsPanel' = [settingsPanel EXCEPT !.settings.timeRange[field] = value]
    /\ calendarView' = IF settingsPanel.sharesTimeRange
                       THEN [calendarView EXCEPT !.settings.timeRange[field] = value]
                       ELSE calendarView

\* handleSettingChange('dayRange.startDay' | 'dayRange.endDay', value)
ChangeDayRange(field, value) ==
    /\ settingsPanel.open
    /\ settingsPanel' = [settingsPanel EXCEPT !.settings.dayRange[field] = value]
    /\ calendarView' = IF settingsPanel.sharesDayRange
                       THEN [calendarView EXCEPT !.settings.dayRange[field] = value]
                       ELSE calendarView

\* handleSettingChange('timeSlotInterval' | 'showWeekends', value)
ChangeTopLevel(key, value) ==
    /\ settingsPanel.open
    /\ settingsPanel' = [settingsPanel EXCEPT !.settings[key] = value]
    /\ UNCHANGED calendarView

\* applyPreset: the preset 'business'
Presets ==
    [ business |-> [ timeRange        |-> [startHour |-> 9, endHour |-> 18],
                     dayRange         |-> [startDay |-> 1, endDay |-> 5],
                     showWeekends     |-> FALSE,
                     timeSlotInterval |-> 30 ] ]

\* applyPreset: { ...prev, ...presets[preset] } with the preset's own objects
applyPreset(preset) ==
    /\ settingsPanel.open
    /\ settingsPanel' = [ open            |-> TRUE,
                          settings        |-> Presets[preset] @@ settingsPanel.settings,
                          sharesTimeRange |-> FALSE,
                          sharesDayRange  |-> FALSE ]
    /\ UNCHANGED calendarView

\* handleReset: setSettings(defaultSettings)
handleReset ==
    /\ settingsPanel.open
    /\ settingsPanel' = [ open            |-> TRUE,
                          settings        |-> DefaultSettings,
                          sharesTimeRange |-> FALSE,
                          sharesDayRange  |-> FALSE ]
    /\ UNCHANGED calendarView

\* handleSave: the two validations
SettingsValid(settings) ==
    /\ ~(settings.timeRange.startHour >= settings.timeRange.endHour)
    /\ ~(settings.dayRange.startDay > settings.dayRange.endDay /\ settings.showWeekends)

\* handleSave: alert and return, or onSettingsChange(settings) (setSettings
\* and localStorage.setItem in CalendarView) and onClose()
handleSave ==
    /\ settingsPanel.open
    /\ IF SettingsValid(settingsPanel.settings)
       THEN /\ calendarView' = [calendarView EXCEPT
                                   !.settings = settingsPanel.settings,
                                   !.localStorage = <<settingsPanel.settings>>]
            /\ settingsPanel' = NoPanel
       ELSE UNCHANGED <<calendarView, settingsPanel>>

\* onClose, behind the panel's close and cancel buttons
SettingsClose ==
    /\ settingsPanel.open
    /\ settingsPanel' = NoPanel
    /\ UNCHANGED calendarView

\* the calendar page is opened again: the default settings, replaced by the
\* saved ones when localStorage holds any
CalendarMount ==
    /\ calendarView' = [calendarView EXCEPT
                           !.settings = IF calendarView.localStorage = <<>>
                                        THEN DefaultSettings
                                        ELSE calendarView.localStorage[1]]
    /\ settingsPanel' = NoPanel

(***************************************************************************)
(* Specification of the calendar settings                                  *)
(***************************************************************************)
\* what is chosen in the panel's selects and switches
TimeRangeChanges ==
    {[field |-> "startHour", value |-> 21], [field |-> "endHour", value |-> 18]}

DayRangeChanges == {[field |-> "startDay", value |-> 1]}

TopLevelChanges == {[key |-> "timeSlotInterval", value |-> 60]}

SettingsOpen ==
    /\ SettingsMount
    /\ UNCHANGED <<appointments, editPage, formVars, analysis, officeVars, files,
                   inFlight, bulkModal, detailPage>>

SettingsChange ==
    /\ \/ \E c \in TimeRangeChanges : ChangeTimeRange(c.field, c.value)
       \/ \E c \in DayRangeChanges : ChangeDayRange(c.field, c.value)
       \/ \E c \in TopLevelChanges : ChangeTopLevel(c.key, c.value)
    /\ UNCHANGED <<appointments, editPage, formVars, analysis, officeVars, files,
                   inFlight, bulkModal, detailPage>>

SettingsPreset ==
    /\ \E preset \in DOMAIN Presets : applyPreset(preset)
    /\ UNCHANGED <<appointments, editPage, formVars, analysis, officeVars, files,
                   inFlight, bulkModal, detailPage>>

SettingsReset ==
    /\ handleReset
    /\ UNCHANGED <<appointments, editPage, formVars, analysis, officeVars, files,
                   inFlight, bulkModal, detailPage>>

SettingsSave ==
    /\ handleSave
    /\ UNCHANGED <<appointments, editPage, formVars, analysis, officeVars, files,
                   inFlight, bulkModal, detailPage>>

SettingsCancel ==
    /\ SettingsClose
    /\ UNCHANGED <<appointments, editPage, formVars, analysis, officeVars, files,
                   inFlight, bulkModal, detailPage>>

SettingsReload ==
    /\ CalendarMount
    /\ UNCHANGED <<appointments, editPage, formVars, analysis, officeVars, files,
                   inFlight, bulkModal, detailPage>>

SettingsNext ==
    \/ SettingsOpen
    \/ SettingsChange
    \/ SettingsPreset
    \/ SettingsReset
    \/ SettingsSave
    \/ SettingsCancel
    \/ SettingsReload

SpecSettings == ApptInit /\ [][SettingsNext]_vars

\* the step is a Save of the panel that passed the validation
IsSave ==
    /\ settingsPanel.open
    /\ ~settingsPanel'.open
    /\ SettingsValid(settingsPanel.settings)
    /\ calendarView'.settings = settingsPanel.settings
    /\ calendarView'.localStorage = <<settingsPanel.settings>>

\* the step opens the calendar page again with what localStorage holds
IsReload ==
    calendarView'.settings = IF calendarView.localStorage = <<>>
                             THEN DefaultSettings ELSE calendarView.localStorage[1]

\* C30: the settings CalendarView works with, the nested timeRange and
\* dayRange included, change only by a Save that passed the validation (or
\* by loading what was saved); changing fields in the panel and closing it
\* leaves them as they were; and timeRange.startHour < timeRange.endHour
\* holds at all times.
C30_SettingsChangeBySaveOnly ==
    /\ [](calendarView.settings.timeRange.startHour
             < calendarView.settings.timeRange.endHour)
    /\ [][ calendarView'.settings # calendarView.settings
              => IsSave \/ IsReload ]_vars

====
